---- MODULE Spec2Model ----
(***************************************************************************)
(* A model of the SSH reverse proxy forwarding engine of cmoog/sshproxy:   *)
(* Serve, processChannels, processRequests, handleChannel, bicopy,         *)
(* copyChannels and handleRequest (package sshproxy), with the SSH library *)
(* and the two peers as the environment.                                   *)
(*                                                                         *)
(* Three sub-systems share the variables; each has its own specification:  *)
(*   SpecReq      one request relay loop (processRequests/handleRequest)   *)
(*   SpecHandler  one channel handler with its copiers and request relays  *)
(*   SpecServe    Serve, the liveness watcher and the new-channel loops    *)
(* The Fair* specifications add weak fairness on the proxy's own steps.    *)
(***************************************************************************)
EXTENDS Naturals, Sequences, FiniteSets, TLC

(* ------------------------------ bounds -------------------------------- *)
\* requests the environment puts on one request stream
MaxReqs == 2
\* bytes the two peers write on the four streams of a channel pair, in all
MaxData == 2
\* failures of one behaviour: a context cancellation or a failing channel
MaxFaults == 1
\* channel pairs (new-channel notifications) of one session
MaxChans == 2
\* iterations of the accept loop of ServeProxy
MaxConns == 2

(* ------------------------------ values -------------------------------- *)
\* errors are sequences of message segments; fmt.Errorf("p: %w", e) prepends p
Nil == <<>>
Wrap(prefix, err) == <<prefix>> \o err
io_EOF == <<"EOF">>
context_Canceled == <<"context canceled">>
errTransport == <<"transport failure">>

Payloads == {<<>>, <<7>>}
NoReq == [id |-> 0, name |-> "", wantReply |-> FALSE, payload |-> <<>>]
\* the requests a peer sends: a name with its payload, reply wanted or not
ReqKinds == {[name |-> "exec", payload |-> <<7>>], [name |-> "x11-req", payload |-> <<>>]}
Requests(k) ==
  {[id |-> k, name |-> rk.name, wantReply |-> w, payload |-> rk.payload] :
     rk \in ReqKinds, w \in BOOLEAN}

\* channel pairs, one per new-channel notification
Chans == 1..MaxChans
Tasks == 1..MaxConns
\* request streams: the two global ones <<0, name>>, and the two of each
\* channel pair <<n, name>>: destReqs (from the mirror channel, relayed to the
\* inbound channel) and originRequests (from the inbound channel)
GlobalStreams == {0} \X {"serverReqs", "destReqs"}
ChannelStreams == Chans \X {"destReqs", "originRequests"}
Streams == GlobalStreams \cup ChannelStreams

\* the two SSH connections of a session: origin (serverConn.Conn) and target
\* (destConn); a notification or request from one is forwarded to the other
Conns == {"origin", "target"}
OtherConn(c) == IF c = "origin" THEN "target" ELSE "origin"
\* faulty variant: a loop is given the connection its own stream comes from
Serve_destConnSame(c) == c

\* the destination Serve gives the loops over the streams of connection c:
\* destConn for serverChans and serverReqs, serverConn.Conn for destChans and
\* destReqs
Serve_destConn(c) == OtherConn(c)

\* the connection whose peer sends on a global request stream
SourceOf(s) == IF s = <<0, "serverReqs">> THEN "origin" ELSE "target"
\* the global request stream of a connection
ReqStreamOf(c) == IF c = "origin" THEN <<0, "serverReqs">> ELSE <<0, "destReqs">>
errClosed == <<"use of closed network connection">>
errDial == <<"connection refused">>
errHandshake == <<"ssh: handshake failed">>
net_ErrClosed == <<"use of closed network connection">>
errListen == <<"address already in use">>
errAccept == <<"too many open files">>

\* errors.Is(err, target): target is err or an error err wraps
errors_Is(err, target) ==
  /\ err # Nil
  /\ Len(err) >= Len(target)
  /\ SubSeq(err, Len(err) - Len(target) + 1, Len(err)) = target

VARIABLES
  ctxDone,     \* ctx.Done() is closed: the context the goroutines select on
               \* (in Serve, the child made by context.WithCancel) is cancelled
  \* ---- request relays (processRequests / handleRequest), per stream
  reqQ,        \* requests arrived on the stream and not yet dequeued
  reqSeen,     \* the requests that have arrived on the stream, in order
  reqLimit,    \* number of requests the peer sends on the stream at most
  reqClosed,   \* the stream (a Go channel) has been closed by the library
  rpc,         \* relay position: off, range, send, reply, done
  rcur,        \* the request being handled
  rres,        \* what dest.SendRequest returned: [ok, payload, err]
  retLog,      \* what the destinations returned, in order: [id, ok, err] and,
               \* for a connection, payload
  sendLog,     \* SendRequest invocations on the destination, in order
  sendTo,      \* the destinations of those invocations, in order
  replyLog,    \* Reply invocations on the originator's requests, in order
  evLog,       \* per stream: the relay's events <<kind, request id>>
  rerr,        \* what handleRequest returned last
  sentClosed   \* the last SendRequest was invoked on a channel its handler
               \* had already closed

VARIABLES
  \* ---- channel handlers (handleChannel), per channel pair
  hpc,          \* handler position: off, start, open, reject, accept, bicopy, select, returned
  notif,        \* the new-channel notification: [from, chanType, extraData]
  openLog,      \* OpenChannel invocations of the handler: [conn, chanType, extraData]
  openRes,      \* what destConn.OpenChannel returned
  acceptN,      \* number of newChannel.Accept invocations
  rejectLog,    \* newChannel.Reject invocations: [reason, message]
  bicopyRet,    \* what bicopy returned: none (not yet), nil, err (ctx.Err())
  hret,         \* what handleChannel returned
  closeLog,     \* per pair: its channels that were closed by a handler, in order
  \* ---- copiers (bicopy / copyChannels / io.Copy), per channel pair
  cwpc,         \* copyChannels(w, r) position, per w: off, copy, done
  cpc,          \* io.Copy position, per <<w, stream>>: off, read, write, done
  cbuf,         \* bytes io.Copy has read and not yet written
  inflight,     \* per <<r, stream>>: bytes the peer writes, not yet read
  chState,      \* per channel, what its peer did: open, eof (the peer sent EOF),
                \* closed (the peer closed it), failed (the transport failed)
  readLog,      \* per <<r, stream>>: bytes read from the channel, in order
  written,      \* per <<w, stream>>: bytes written to the channel, in order
  copyErrs,     \* per <<w, stream>>: the error io.Copy ended with
  closeWriteLog \* channels CloseWrite was invoked on, in order

VARIABLES
  \* ---- the session (Serve, its watcher goroutine and processChannels)
  spc,          \* Serve position: off, dial, handshake, select, returned
  sret,         \* what Serve returned
  sway,         \* the statement Serve returned from: dial, handshake, ctx, wait
  deferLog,     \* the deferred calls Serve (then handle) ran on return, in order
  wpc,          \* watcher goroutine: off, wait (in serverConn.Conn.Wait()), sent
  shutdownErr,  \* the buffered channel shutdownErr (capacity 1), as a sequence
  conn,         \* per connection: none (no SSH connection yet), up, down
  connErr,      \* per connection: the error it ended with (what Wait returns)
  connCloseLog, \* destConn.Close() invocations of the new-channel loops:
                \* [loop, conn], loop named by the connection it ranges over
  lpc,          \* processChannels position per source connection: off, range, done
  chanQ,        \* per connection: new-channel notifications not yet dequeued
  nNotifs,      \* number of new-channel notifications that have arrived
  notifLimit,   \* number of channels the peers open at most
  callLog,      \* the calls handle and Serve made to set the session up, in
                \* order (and "Route failed" after a Route call that failed)
  \* ---- the dispatcher (ServeProxy, its closer goroutine and its tasks)
  ppc,          \* ServeProxy position: off, listen, accept, returned, crashed
  pret,         \* what ServeProxy returned
  outerDone,    \* the context given to ServeProxy is cancelled
  listener,     \* the listener: none, open, closed
  tpc,          \* per loop iteration, its goroutine: none, handle (called with
                \* a connection), handleNil (called with a nil connection),
                \* serve (Serve in its select), done
  tret,         \* per loop iteration: what handle returned
  plog          \* the errors ServeProxy gave to the logger, in order

reqVars == <<reqQ, reqSeen, reqLimit, reqClosed, rpc, rcur, rres, retLog, sendLog, sendTo, replyLog, evLog, rerr, sentClosed>>
hVars == <<hpc, notif, openLog, openRes, acceptN, rejectLog, bicopyRet, hret, closeLog>>
cVars == <<cwpc, cpc, cbuf, inflight, chState, readLog, written,
           copyErrs, closeWriteLog>>
pVars == <<ppc, pret, outerDone, listener, tpc, tret, plog>>
sVars == <<spc, sret, sway, deferLog, wpc, shutdownErr, conn, connErr,
           connCloseLog, lpc, chanQ, nNotifs, notifLimit, callLog, pVars>>
vars == <<ctxDone, reqVars, hVars, cVars, sVars>>

NoRes == [ok |-> FALSE, payload |-> <<>>, err |-> Nil]

(* ------------------- the destination of a request --------------------- *)
\* ssh.Conn.SendRequest: an answer (ok, payload) when a reply is wanted,
\* (false, nil) when none is; or a failure (false, nil, err)
ConnSendResults(wantReply) ==
  (IF wantReply THEN [ok : BOOLEAN, payload : Payloads, err : {Nil}]
                ELSE {[ok |-> FALSE, payload |-> <<>>, err |-> Nil]})
  \cup [ok : {FALSE}, payload : {<<>>}, err : {io_EOF, errTransport}]

\* ssh.Channel.SendRequest returns (ok, err); the library's channel answer
\* carries no payload
ChannelSendResults(wantReply) ==
  (IF wantReply THEN [ok : BOOLEAN, err : {Nil}]
                ELSE {[ok |-> FALSE, err |-> Nil]})
  \cup [ok : {FALSE}, err : {io_EOF, errTransport}]

\* channelRequestDest.SendRequest: ok, nil, err
channelRequestDest_SendRequest(r) == [ok |-> r.ok, payload |-> <<>>, err |-> r.err]

\* faulty variant: the handlers keep their channels in variables they share,
\* so that every handler works on the channels of the first pair
handleChannel_pairShared(n) == 1

\* the pair whose channels the handler started for notification n hands to
\* its sub-tasks and closes: destCh and originCh are local variables of the
\* call, the channels it has opened and accepted itself
handleChannel_pair(n) == n

\* the destination of the relay of stream s: a connection for a global stream;
\* for a channel's stream the other channel of the pair
\* (channelRequestDest{originCh} for destReqs, channelRequestDest{destCh} for
\* originRequests)
RelayDest(s) ==
  IF s \in GlobalStreams THEN Serve_destConn(SourceOf(s))
  ELSE IF s[2] = "destReqs" THEN "originCh" ELSE "destCh"

\* the destination of the relay of stream s is a channel its handler has
\* closed
ClosedByHandler(s) ==
  /\ s \notin GlobalStreams
  /\ \E i \in 1..Len(closeLog[handleChannel_pair(s[1])]) :
       closeLog[handleChannel_pair(s[1])][i] = RelayDest(s)

\* the handle SendRequest is invoked on: the connection, or the channel with
\* its pair
RelayHandle(s) ==
  IF s \in GlobalStreams THEN RelayDest(s) ELSE <<handleChannel_pair(s[1]), RelayDest(s)>>

\* faulty variant: a request sent on a channel the proxy has closed can
\* still be delivered and answered
ChannelSendResultsReopened(wantReply) ==
  (IF wantReply THEN [ok : BOOLEAN, err : {Nil}]
                ELSE {[ok |-> FALSE, err |-> Nil]})
  \cup [ok : {FALSE}, err : {io_EOF, errTransport}]

\* ssh.Channel.SendRequest on a channel the proxy has closed: nothing is
\* sent, the call returns io.EOF
ChannelSendResultsClosed(wantReply) == {[ok |-> FALSE, err |-> io_EOF]}

\* what the destination of stream s can return: a connection for a global
\* stream, a channel for a channel's stream
DestResults(s, wantReply) ==
  IF s \in GlobalStreams
  THEN {r \in ConnSendResults(wantReply) :
          conn[RelayDest(s)] = "down" => r.err # Nil}
  ELSE IF sentClosed[s] THEN ChannelSendResultsClosed(wantReply)
  ELSE ChannelSendResults(wantReply)

\* dest.SendRequest as handleRequest sees it: the connection's own method, or
\* the wrapper channelRequestDest around the channel's
handleRequest_sendResult(s, r) ==
  IF s \in GlobalStreams THEN r ELSE channelRequestDest_SendRequest(r)

\* faulty variant: the payload of a request is not forwarded
SendRequestArgsNoPayload(req) ==
  [name |-> req.name, wantReply |-> req.wantReply, payload |-> <<>>]

\* what the destination is sent for a request
SendRequestArgs(req) == [name |-> req.name, wantReply |-> req.wantReply, payload |-> req.payload]

\* faulty variant: a reply is issued for every request
handleRequest_repliesAlways(req) == TRUE

\* faulty variant: the reply never carries a payload
handleRequest_replyArgsNoPayload(res) == [ok |-> res.ok, payload |-> <<>>]

\* the arguments of req.Reply: the ok and the payload SendRequest returned
handleRequest_replyArgs(res) == [ok |-> res.ok, payload |-> res.payload]

\* whether handleRequest replies to the request
handleRequest_replies(req) == req.wantReply

\* handleRequest's return value, from SendRequest's error and Reply's error
\* (replyErr is Nil when no reply was issued)
handleRequest_result(sendErr, replyErr) ==
  IF sendErr # Nil
  THEN IF replyErr # Nil THEN Wrap("reply after send failure", replyErr)
                         ELSE Wrap("send request", sendErr)
  ELSE IF replyErr # Nil THEN Wrap("reply", replyErr) ELSE Nil

(* --------------------------- request relay ---------------------------- *)
\* the peer sends a request on stream s
RequestArrives(s) ==
  /\ ~reqClosed[s]
  /\ spc # "shake"
  /\ Len(reqSeen[s]) < reqLimit[s]
  /\ \E req \in Requests(Len(reqSeen[s]) + 1) :
       /\ reqQ' = [reqQ EXCEPT ![s] = Append(@, req)]
       /\ reqSeen' = [reqSeen EXCEPT ![s] = Append(@, req)]
  /\ UNCHANGED <<reqLimit, reqClosed, rpc, rcur, rres, retLog, sendLog, sendTo, replyLog, evLog, rerr, sentClosed>>

\* the library closes the stream (the channel or the connection ended)
RequestStreamCloses(s) ==
  /\ ~reqClosed[s]
  /\ reqClosed' = [reqClosed EXCEPT ![s] = TRUE]
  /\ UNCHANGED <<reqQ, reqSeen, reqLimit, rpc, rcur, rres, retLog, sendLog, sendTo, replyLog, evLog, rerr, sentClosed>>

\* faulty variant: one lock for all relays, a request is taken only while no
\* relay is handling one
processRequests_readyGlobal(s) ==
  rpc[s] = "range" /\ \A t \in Streams : rpc[t] \notin {"send", "reply"}

\* faulty variant: a request is taken while the previous one is being handled
processRequests_readyAlways(s) == rpc[s] \in {"range", "send", "reply"}

\* the loop is at its range statement: handleRequest has returned
processRequests_ready(s) == rpc[s] = "range"

\* for req := range requests { handleRequest: dest.SendRequest(...) is invoked
processRequests_next(s) ==
  /\ processRequests_ready(s)
  /\ reqQ[s] # <<>>
  /\ LET req == Head(reqQ[s]) IN
       /\ rcur' = [rcur EXCEPT ![s] = req]
       /\ sendLog' = [sendLog EXCEPT ![s] = Append(@, SendRequestArgs(req))]
       /\ sendTo' = [sendTo EXCEPT ![s] = Append(@, RelayHandle(s))]
       /\ evLog' = [evLog EXCEPT ![s] = Append(@, <<"send", req.id>>)]
  /\ reqQ' = [reqQ EXCEPT ![s] = Tail(@)]
  /\ rpc' = [rpc EXCEPT ![s] = "send"]
  /\ sentClosed' = [sentClosed EXCEPT ![s] = ClosedByHandler(s)]
  /\ UNCHANGED <<reqSeen, reqLimit, reqClosed, rres, retLog, replyLog, rerr>>

\* dest.SendRequest returns; without a wanted reply handleRequest returns too
SendRequest_returns(s) ==
  /\ rpc[s] = "send"
  /\ \E r \in DestResults(s, rcur[s].wantReply) :
     LET res == handleRequest_sendResult(s, r) IN
       /\ rres' = [rres EXCEPT ![s] = res]
       /\ retLog' = [retLog EXCEPT ![s] = Append(@, [id |-> rcur[s].id] @@ r)]
       /\ IF handleRequest_replies(rcur[s])
          THEN /\ rpc' = [rpc EXCEPT ![s] = "reply"]
               /\ UNCHANGED <<rcur, rerr>>
          ELSE /\ rpc' = [rpc EXCEPT ![s] = "range"]
               /\ rerr' = [rerr EXCEPT ![s] = handleRequest_result(res.err, Nil)]
               /\ rcur' = [rcur EXCEPT ![s] = NoReq]
  /\ evLog' = [evLog EXCEPT ![s] = Append(@, <<"ret", rcur[s].id>>)]
  /\ UNCHANGED <<reqQ, reqSeen, reqLimit, reqClosed, sendLog, sendTo, replyLog, sentClosed>>

\* request.Reply(ok, payload), which may fail; handleRequest returns
handleRequest_reply(s) ==
  /\ rpc[s] = "reply"
  /\ replyLog' = [replyLog EXCEPT ![s] =
        Append(@, [id |-> rcur[s].id] @@ handleRequest_replyArgs(rres[s]))]
  /\ evLog' = [evLog EXCEPT ![s] = Append(@, <<"reply", rcur[s].id>>)]
  /\ \E replyErr \in {Nil, errTransport} :
       rerr' = [rerr EXCEPT ![s] = handleRequest_result(rres[s].err, replyErr)]
  /\ rcur' = [rcur EXCEPT ![s] = NoReq]
  /\ rpc' = [rpc EXCEPT ![s] = "range"]
  /\ UNCHANGED <<reqQ, reqSeen, reqLimit, reqClosed, rres, retLog, sendLog, sendTo, sentClosed>>

\* faulty variant: the loop also ends when handleRequest returned an error
\* or the context is cancelled
processRequests_rangeEndsOnError(s) ==
  (reqQ[s] = <<>> /\ reqClosed[s]) \/ rerr[s] # Nil \/ ctxDone

\* the range statement ends the loop: the stream is closed and drained (the
\* loop has no break and no return, and does not look at ctx)
processRequests_rangeEnds(s) == reqQ[s] = <<>> /\ reqClosed[s]

\* the range loop ends: the stream is closed and drained
processRequests_exit(s) ==
  /\ rpc[s] = "range"
  /\ processRequests_rangeEnds(s)
  /\ rpc' = [rpc EXCEPT ![s] = "done"]
  /\ UNCHANGED <<reqQ, reqSeen, reqLimit, reqClosed, rcur, rres, retLog, sendLog, sendTo, replyLog, evLog, rerr, sentClosed>>

(* --------------------------- channel values --------------------------- *)
\* the two channels of a pair, by the handler's names: originCh is the inbound
\* channel (newChannel.Accept), destCh its mirror (destConn.OpenChannel)
ChNames == {"originCh", "destCh"}
Other(ch) == IF ch = "originCh" THEN "destCh" ELSE "originCh"
\* the primary stream and the extended-data stream (stderr) of a channel
Kinds == {"primary", "stderr"}
Ends == ChNames \X Kinds

\* the k-th byte a peer writes on a stream; all bytes of a pair are distinct
Byte(e, k) ==
  (IF e[1] = "originCh" THEN 100 ELSE 200) + (IF e[2] = "primary" THEN 0 ELSE 50) + k

\* the first len bytes a peer writes on a stream
PeerData(e, len) == [k \in 1..len |-> Byte(e, k)]
\* the ways of having the peers write total bytes on the four streams
Budgets(total) ==
  {len \in [Ends -> 0..total] :
     len[<<"originCh", "primary">>] + len[<<"originCh", "stderr">>]
       + len[<<"destCh", "primary">>] + len[<<"destCh", "stderr">>] = total}

Notifs ==
  {[from |-> "origin", chanType |-> "session", extraData |-> <<>>],
   [from |-> "target", chanType |-> "forwarded-tcpip", extraData |-> <<9>>]}
OriginSession == [from |-> "origin", chanType |-> "session", extraData |-> <<>>]
NoNotif == [from |-> "", chanType |-> "", extraData |-> <<>>]

\* results of destConn.OpenChannel: success, *ssh.OpenChannelError, other errors
OpenOK == [kind |-> "ok", reason |-> "", message |-> ""]
NoOpenRes == [kind |-> "none", reason |-> "", message |-> ""]
OpenChannelErrors ==
  {[kind |-> "typed", reason |-> "UnknownChannelType", message |-> "unknown channel type"],
   [kind |-> "typed", reason |-> "Prohibited", message |-> "denied"]}
OtherOpenErrors ==
  {[kind |-> "other", reason |-> "", message |-> "EOF"]}
OpenResults == {OpenOK} \cup OpenChannelErrors \cup OtherOpenErrors

\* err.Error() of a failed OpenChannel, as message segments
OpenErrString(res) ==
  IF res.kind = "typed" THEN <<"ssh: rejected", res.reason, res.message>>
                        ELSE <<res.message>>

\* faulty variant: every refusal is passed on as ConnectionFailed
handleChannel_rejectArgsGeneric(res) ==
  [reason |-> "ConnectionFailed", message |-> res.message]

\* the arguments of newChannel.Reject for a failed OpenChannel
handleChannel_rejectArgs(res) ==
  IF res.kind = "typed"
  THEN [reason |-> res.reason, message |-> res.message]
  ELSE [reason |-> "ConnectionFailed", message |-> res.message]

\* handleChannel's return value when OpenChannel failed
handleChannel_openError(res) == Wrap("open channel", OpenErrString(res))

(* --------------------------- channel handler -------------------------- *)
\* destConn.OpenChannel(newChannel.ChannelType(), newChannel.ExtraData())
handleChannel_open(n) ==
  /\ hpc[n] = "start"
  /\ openLog' = [openLog EXCEPT ![n] = Append(@,
        [conn |-> Serve_destConn(notif[n].from), chanType |-> notif[n].chanType,
         extraData |-> notif[n].extraData])]
  /\ hpc' = [hpc EXCEPT ![n] = "open"]
  /\ UNCHANGED <<notif, openRes, acceptN, rejectLog, bicopyRet, hret, closeLog>>

\* faulty variant: the error of OpenChannel is ignored
handleChannel_openedAlways(res) == TRUE

\* whether the handler goes on to accept after OpenChannel returned res
handleChannel_opened(res) == res.kind = "ok"

\* OpenChannel returns: the destination confirmed the channel or refused it
OpenChannel_returns(n) ==
  /\ hpc[n] = "open"
  /\ \E res \in OpenResults :
       /\ conn[Serve_destConn(notif[n].from)] = "down" => res.kind = "other"
       /\ openRes' = [openRes EXCEPT ![n] = res]
       /\ hpc' = [hpc EXCEPT ![n] = IF handleChannel_opened(res) THEN "accept" ELSE "reject"]
  /\ UNCHANGED <<notif, openLog, acceptN, rejectLog, bicopyRet, hret, closeLog>>

\* if err != nil: newChannel.Reject(...); return "open channel: %w"
handleChannel_reject(n) ==
  /\ hpc[n] = "reject"
  /\ rejectLog' = [rejectLog EXCEPT ![n] = Append(@, handleChannel_rejectArgs(openRes[n]))]
  /\ hret' = [hret EXCEPT ![n] = handleChannel_openError(openRes[n])]
  /\ hpc' = [hpc EXCEPT ![n] = "returned"]
  /\ UNCHANGED <<notif, openLog, openRes, acceptN, bicopyRet, closeLog>>

\* faulty variant: the mirror channel is closed before the inbound one
handleChannel_defersReversed == <<"destCh", "originCh">>

\* the deferred Close calls of a return after both channels exist
handleChannel_defers == <<"originCh", "destCh">>

\* newChannel.Accept() fails: return "accept new channel: %w"; destCh is closed
handleChannel_acceptFails(n) ==
  /\ hpc[n] = "accept"
  /\ acceptN' = [acceptN EXCEPT ![n] = @ + 1]
  /\ hret' = [hret EXCEPT ![n] = Wrap("accept new channel", errTransport)]
  /\ closeLog' = [closeLog EXCEPT ![handleChannel_pair(n)] = @ \o <<"destCh">>]
  /\ hpc' = [hpc EXCEPT ![n] = "returned"]
  /\ UNCHANGED <<notif, openLog, openRes, rejectLog, bicopyRet>>
  /\ UNCHANGED <<reqVars, cVars>>

\* newChannel.Accept() succeeds; the two request relays and the two
\* copyChannels goroutines of bicopy are started; the handler blocks in bicopy
handleChannel_accept(n) ==
  /\ hpc[n] = "accept"
  /\ acceptN' = [acceptN EXCEPT ![n] = @ + 1]
  /\ hpc' = [hpc EXCEPT ![n] = "bicopy"]
  /\ rpc' = [rpc EXCEPT ![<<n, "destReqs">>] = "range", ![<<n, "originRequests">>] = "range"]
  /\ cwpc' = [cwpc EXCEPT ![n] = [w \in ChNames |-> "copy"]]
  /\ cpc' = [cpc EXCEPT ![n] = [e \in Ends |-> "read"]]
  /\ UNCHANGED <<notif, openLog, openRes, rejectLog, bicopyRet, hret, closeLog>>
  /\ UNCHANGED <<reqQ, reqSeen, reqLimit, reqClosed, rcur, rres, retLog, sendLog, sendTo, replyLog, evLog, rerr, sentClosed>>
  /\ UNCHANGED <<cbuf, inflight, chState, readLog, written,
                 copyErrs, closeWriteLog>>

\* the handler of pair n has accepted the inbound channel
Accepted(n) == cwpc[n]["originCh"] # "off"

\* faulty variant: bicopy waits for the copy into beta instead
bicopy_betaWriteDone(n) == cwpc[n]["destCh"] = "done"

\* faulty variant: bicopy does not wait for the copies into alpha
bicopy_noWriteDone(n) == TRUE

\* faulty variant: bicopy waits for the copies of both directions
bicopy_bothWriteDone(n) == cwpc[n]["originCh"] = "done" /\ cwpc[n]["destCh"] = "done"

\* alphaWriteDone is closed: copyChannels(alpha, beta) has returned
bicopy_alphaWriteDone(n) == cwpc[n]["originCh"] = "done"

\* bicopy's select returns nil: the handler goes on to its own select
bicopy_returnsNil(n) ==
  /\ hpc[n] = "bicopy"
  /\ bicopy_alphaWriteDone(n)
  /\ bicopyRet' = [bicopyRet EXCEPT ![n] = "nil"]
  /\ hpc' = [hpc EXCEPT ![n] = "select"]
  /\ UNCHANGED <<notif, openLog, openRes, acceptN, rejectLog, hret, closeLog>>

\* faulty variant: an error of a copy other than io.EOF also makes bicopy
\* return an error
bicopy_ctxOrCopyError(n) ==
  ctxDone \/ \E e \in Ends : copyErrs[n][e] \notin {Nil, io_EOF}

\* the case <-ctx.Done() of bicopy's select is ready; no error of a copy or
\* of CloseWrite reaches the select
bicopy_ctxReady(n) == ctxDone

\* bicopy's select returns ctx.Err(): "channel bidirectional copy: %w"
bicopy_returnsErr(n) ==
  /\ hpc[n] = "bicopy"
  /\ bicopy_ctxReady(n)
  /\ bicopyRet' = [bicopyRet EXCEPT ![n] = "err"]
  /\ hret' = [hret EXCEPT ![n] = Wrap("channel bidirectional copy", context_Canceled)]
  /\ closeLog' = [closeLog EXCEPT ![handleChannel_pair(n)] = @ \o handleChannel_defers]
  /\ hpc' = [hpc EXCEPT ![n] = "returned"]
  /\ UNCHANGED <<notif, openLog, openRes, acceptN, rejectLog>>

\* faulty variant: the handler does not wait for the relay of destReqs
handleChannel_noRequestsDone(n) == TRUE

\* faulty variant: the handler also waits for the inbound channel's requests
handleChannel_allRequestsDone(n) ==
  rpc[<<n, "destReqs">>] = "done" /\ rpc[<<n, "originRequests">>] = "done"

\* destRequestsDone is closed: the relay of destReqs has returned
handleChannel_destRequestsDone(n) == rpc[<<n, "destReqs">>] = "done"

\* the handler's select returns nil
handleChannel_returnsNil(n) ==
  /\ hpc[n] = "select"
  /\ handleChannel_destRequestsDone(n)
  /\ hret' = [hret EXCEPT ![n] = Nil]
  /\ closeLog' = [closeLog EXCEPT ![handleChannel_pair(n)] = @ \o handleChannel_defers]
  /\ hpc' = [hpc EXCEPT ![n] = "returned"]
  /\ UNCHANGED <<notif, openLog, openRes, acceptN, rejectLog, bicopyRet>>

\* the handler's select returns ctx.Err()
handleChannel_returnsErr(n) ==
  /\ hpc[n] = "select"
  /\ ctxDone
  /\ hret' = [hret EXCEPT ![n] = context_Canceled]
  /\ closeLog' = [closeLog EXCEPT ![handleChannel_pair(n)] = @ \o handleChannel_defers]
  /\ hpc' = [hpc EXCEPT ![n] = "returned"]
  /\ UNCHANGED <<notif, openLog, openRes, acceptN, rejectLog, bicopyRet>>

(* ------------------------------ copiers ------------------------------- *)
InSeq(x, seq) == \E i \in 1..Len(seq) : seq[i] = x

\* the request stream of a channel
RequestsOf(n, ch) == <<n, IF ch = "destCh" THEN "destReqs" ELSE "originRequests">>

\* the peer (or the transport) has ended channel ch: the library has closed
\* its request stream, Reads return io.EOF once drained, Writes fail
Ended(n, ch) == chState[n][ch] \in {"closed", "failed"}

\* faulty variant: a Write succeeds on a channel the proxy has closed
WritableAfterClose(n, w) ==
  /\ ~InSeq(w, closeWriteLog[n])
  /\ ~Ended(n, w)

\* a Write on channel w succeeds: the proxy has neither closed nor
\* half-closed it, and it has not ended
Writable(n, w) ==
  /\ ~InSeq(w, closeLog[n])
  /\ ~InSeq(w, closeWriteLog[n])
  /\ ~Ended(n, w)

\* the error of a failed Write on w
WriteErr(n, w) == IF chState[n][w] = "failed" THEN errTransport ELSE io_EOF

\* a Read on channel r returns io.EOF: the peer sent EOF or the channel ended
\* (the bytes that arrived before are read first)
ReadsEOF(n, r) == chState[n][r] # "open"

\* the failures so far
Faults ==
  (IF ctxDone THEN 1 ELSE 0)
  + Cardinality({x \in Chans \X ChNames : chState[x[1]][x[2]] = "failed"})

\* the peer sends EOF on its channel (both streams end)
PeerEOF(n, ch) ==
  /\ cwpc[n][ch] # "off"
  /\ chState[n][ch] = "open"
  /\ chState' = [chState EXCEPT ![n][ch] = "eof"]
  /\ UNCHANGED <<cwpc, cpc, cbuf, inflight, readLog, written, copyErrs, closeWriteLog>>
  /\ UNCHANGED reqVars

\* the peer closes its channel; the library closes the channel's request stream
PeerCloses(n, ch) ==
  /\ cwpc[n][ch] # "off"
  /\ chState[n][ch] \in {"open", "eof"}
  /\ chState' = [chState EXCEPT ![n][ch] = "closed"]
  /\ reqClosed' = [reqClosed EXCEPT ![RequestsOf(n, ch)] = TRUE]
  /\ UNCHANGED <<cwpc, cpc, cbuf, inflight, readLog, written, copyErrs, closeWriteLog>>
  /\ UNCHANGED <<reqQ, reqSeen, reqLimit, rpc, rcur, rres, retLog, sendLog, sendTo, replyLog, evLog, rerr, sentClosed>>

\* the transport under a channel fails; the library ends the channel
ChannelFails(n, ch) ==
  /\ cwpc[n][ch] # "off"
  /\ chState[n][ch] \in {"open", "eof"}
  /\ Faults < MaxFaults
  /\ chState' = [chState EXCEPT ![n][ch] = "failed"]
  /\ reqClosed' = [reqClosed EXCEPT ![RequestsOf(n, ch)] = TRUE]
  /\ UNCHANGED <<cwpc, cpc, cbuf, inflight, readLog, written, copyErrs, closeWriteLog>>
  /\ UNCHANGED <<reqQ, reqSeen, reqLimit, rpc, rcur, rres, retLog, sendLog, sendTo, replyLog, evLog, rerr, sentClosed>>

\* io.Copy(w, r): r.Read returns some of the bytes the peer has written
ioCopy_read(n, w, k) ==
  LET r == Other(w) IN
  /\ cpc[n][<<w, k>>] = "read"
  /\ \E i \in 1..Len(inflight[n][<<r, k>>]) :
       LET got == SubSeq(inflight[n][<<r, k>>], 1, i) IN
       /\ cbuf' = [cbuf EXCEPT ![n][<<w, k>>] = got]
       /\ readLog' = [readLog EXCEPT ![n][<<r, k>>] = @ \o got]
       /\ inflight' = [inflight EXCEPT ![n][<<r, k>>] =
             SubSeq(@, i + 1, Len(@))]
  /\ cpc' = [cpc EXCEPT ![n][<<w, k>>] = "write"]
  /\ UNCHANGED <<cwpc, chState, written, copyErrs, closeWriteLog>>

\* io.Copy(w, r): r.Read returns io.EOF and io.Copy returns nil
ioCopy_readEOF(n, w, k) ==
  LET r == Other(w) IN
  /\ cpc[n][<<w, k>>] = "read"
  /\ inflight[n][<<r, k>>] = <<>>
  /\ ReadsEOF(n, r)
  /\ cpc' = [cpc EXCEPT ![n][<<w, k>>] = "done"]
  /\ UNCHANGED <<cwpc, cbuf, inflight, chState, readLog, written, copyErrs, closeWriteLog>>

\* faulty variant: a copy that drops the first byte of every chunk
ioCopy_chunkShort(buf) == Tail(buf)

\* the bytes io.Copy writes to w after a Read
ioCopy_chunk(buf) == buf

\* faulty variant: both copies write to the primary stream of w
copyChannels_dstPrimary(k) == "primary"

\* the stream of w the copy of r's stream k writes to: io.Copy(w, r) and
\* io.Copy(w.Stderr(), r.Stderr())
copyChannels_dst(k) == k

\* io.Copy(w, r): w.Write of the bytes read; a failed Write ends the copy
ioCopy_write(n, w, k) ==
  /\ cpc[n][<<w, k>>] = "write"
  /\ IF Writable(n, w)
     THEN /\ written' = [written EXCEPT ![handleChannel_pair(n)][<<w, copyChannels_dst(k)>>] =
                           @ \o ioCopy_chunk(cbuf[n][<<w, k>>])]
          /\ cpc' = [cpc EXCEPT ![n][<<w, k>>] = "read"]
          /\ UNCHANGED copyErrs
     ELSE /\ copyErrs' = [copyErrs EXCEPT ![n][<<w, k>>] = WriteErr(n, w)]
          /\ cpc' = [cpc EXCEPT ![n][<<w, k>>] = "done"]
          /\ UNCHANGED written
  /\ cbuf' = [cbuf EXCEPT ![n][<<w, k>>] = <<>>]
  /\ UNCHANGED <<cwpc, inflight, chState, readLog, closeWriteLog>>

\* faulty variant: copyChannels waits for the primary copy only
copyChannels_primaryDone(n, w) == cpc[n][<<w, "primary">>] = "done"

\* copyChannels(w, r): both copies have exited (the stderr copy returned and
\* copyDone is closed)
copyChannels_copiesDone(n, w) == \A k \in Kinds : cpc[n][<<w, k>>] = "done"

\* faulty variant: copyChannels has no deferred call
copyChannels_defersNone(w) == <<>>

\* the channels the deferred call of copyChannels(w, r) half-closes
copyChannels_defers(w) == <<w>>

\* copyChannels(w, r) returns: the deferred w.CloseWrite()
copyChannels_closeWrite(n, w) ==
  /\ cwpc[n][w] = "copy"
  /\ copyChannels_copiesDone(n, w)
  /\ closeWriteLog' = [closeWriteLog EXCEPT ![handleChannel_pair(n)] = @ \o copyChannels_defers(w)]
  /\ cwpc' = [cwpc EXCEPT ![n][w] = "done"]
  /\ UNCHANGED <<cpc, cbuf, inflight, chState, readLog, written,
                 copyErrs>>

\* the context passed to Serve is cancelled
CancelCtx ==
  /\ ~ctxDone
  /\ Faults < MaxFaults
  /\ ctxDone' = TRUE

(* ------------------------------ session ------------------------------ *)
\* a connection ends with err: its new-channel stream and its request stream
\* are closed by the library, and its Wait returns err
ConnDown(cn, ce, rc, c, err) ==
  /\ conn' = [cn EXCEPT ![c] = "down"]
  /\ connErr' = [ce EXCEPT ![c] = err]
  /\ reqClosed' = [rc EXCEPT ![ReqStreamOf(c)] = TRUE]

\* Close() on connection c by the proxy: a live connection ends
ConnClose(c) ==
  IF conn[c] = "up"
  THEN ConnDown(conn, connErr, reqClosed, c, errClosed)
  ELSE UNCHANGED <<conn, connErr, reqClosed>>

\* the peer of connection c disconnects, or the transport to it fails
ConnTerminates(c) ==
  /\ spc # "off"
  /\ conn[c] = "up"
  /\ \E err \in {io_EOF, errTransport} : ConnDown(conn, connErr, reqClosed, c, err)
  /\ UNCHANGED <<reqQ, reqSeen, reqLimit, rpc, rcur, rres, retLog, sendLog, sendTo, replyLog, evLog, rerr, sentClosed>>
  /\ UNCHANGED <<spc, sret, sway, deferLog, wpc, shutdownErr, connCloseLog, lpc, chanQ, nNotifs, notifLimit, callLog, pVars>>

\* faulty variant: Serve wraps the error it returns from its select
Serve_resultWrapped(err) == Wrap("serve", err)

\* the value Serve returns from a case of its select
Serve_result(err) == err

\* faulty variant: Serve defers cancel() only
Serve_defersCancelOnly(way) == <<"cancel">>

\* the deferred calls Serve runs when it returns, in the order they run:
\* defer cancel() is registered first and defer targetConn.Close() once the
\* dial has succeeded
Serve_defers(way) == (IF way = "dial" THEN <<>> ELSE <<"targetConn.Close">>) \o <<"cancel">>

\* Serve returns err: the deferred calls run, targetConn.Close() then cancel()
Serve_returns(err, way) ==
  /\ spc' = "returned"
  /\ sret' = err
  /\ sway' = way
  /\ deferLog' = Serve_defers(way)
  /\ ctxDone' = TRUE
  /\ IF \E i \in 1..Len(Serve_defers(way)) : Serve_defers(way)[i] = "targetConn.Close"
     THEN ConnClose("target")
     ELSE UNCHANGED <<conn, connErr, reqClosed>>
  /\ UNCHANGED <<reqQ, reqSeen, reqLimit, rpc, rcur, rres, retLog, sendLog, sendTo, replyLog, evLog, rerr, sentClosed>>
  /\ UNCHANGED <<wpc, connCloseLog, lpc, chanQ, nNotifs, notifLimit, pVars>>

\* faulty variant: the dial error is returned as it is
Serve_dialErrorBare(err) == err

\* fmt.Errorf("dial reverse proxy target: %w", err)
Serve_dialError(err) == Wrap("dial reverse proxy target", err)

\* faulty variant: the handshake error is returned as it is
Serve_handshakeErrorBare(err) == err

\* fmt.Errorf("new ssh client conn: %w", err)
Serve_handshakeError(err) == Wrap("new ssh client conn", err)

\* net.DialTimeout fails: Serve returns the wrapped error
Serve_dialFails ==
  /\ spc = "dial"
  /\ callLog' = Append(callLog, "DialTimeout")
  /\ Serve_returns(Serve_dialError(errDial), "dial")
  /\ UNCHANGED shutdownErr

\* net.DialTimeout succeeds
Serve_dialed ==
  /\ spc = "dial"
  /\ spc' = "handshake"
  /\ callLog' = Append(callLog, "DialTimeout")
  /\ UNCHANGED <<ctxDone, reqVars>>
  /\ UNCHANGED <<sret, sway, deferLog, wpc, shutdownErr, conn, connErr, connCloseLog, lpc,
                 chanQ, nNotifs, notifLimit, pVars>>

\* ssh.NewClientConn fails: "new ssh client conn: %w"
Serve_handshakeFails ==
  /\ spc = "handshake"
  /\ callLog' = Append(callLog, "NewClientConn")
  /\ Serve_returns(Serve_handshakeError(errHandshake), "handshake")
  /\ UNCHANGED shutdownErr

\* ssh.NewClientConn succeeds; the watcher and the four loops are started and
\* Serve reaches its select
Serve_start ==
  /\ spc = "handshake"
  /\ spc' = "select"
  /\ callLog' = Append(callLog, "NewClientConn")
  /\ conn' = [conn EXCEPT !["target"] = "up"]
  /\ wpc' = "wait"
  /\ lpc' = [c \in Conns |-> "range"]
  /\ rpc' = [s \in Streams |-> IF s \in GlobalStreams THEN "range" ELSE rpc[s]]
  /\ UNCHANGED <<reqQ, reqSeen, reqLimit, reqClosed, rcur, rres, retLog, sendLog, sendTo, replyLog, evLog, rerr, sentClosed>>
  /\ UNCHANGED <<ctxDone, sret, sway, deferLog, shutdownErr, connErr, connCloseLog, chanQ, nNotifs, notifLimit, pVars>>

\* faulty variant: shutdownErr is unbuffered, the send needs Serve in its
\* select to receive
Serve_watcherSendsUnbuffered == spc = "select"

\* the send on shutdownErr does not block: make(chan error, 1) has room for
\* one value
Serve_watcherSends == Len(shutdownErr) < 1

\* shutdownErr <- serverConn.Conn.Wait(): Wait returns when the connection ended
Serve_watcher ==
  /\ wpc = "wait"
  /\ conn["origin"] = "down"
  /\ Serve_watcherSends
  /\ shutdownErr' = Append(shutdownErr, connErr["origin"])
  /\ wpc' = "sent"
  /\ UNCHANGED <<ctxDone, reqVars>>
  /\ UNCHANGED <<spc, sret, sway, deferLog, conn, connErr, connCloseLog, lpc, chanQ, nNotifs, notifLimit, callLog, pVars>>

\* faulty variant: Serve has no ctx.Done() case
Serve_ctxNever == FALSE

\* the case <-ctx.Done() of Serve's select is ready
Serve_ctxReady == ctxDone

\* case <-ctx.Done(): return ctx.Err()
Serve_returnsCtx ==
  /\ spc = "select"
  /\ Serve_ctxReady
  /\ UNCHANGED callLog
  /\ Serve_returns(Serve_result(context_Canceled), "ctx")
  /\ UNCHANGED shutdownErr

\* case err := <-shutdownErr: return err
Serve_returnsWait ==
  /\ spc = "select"
  /\ shutdownErr # <<>>
  /\ UNCHANGED callLog
  /\ Serve_returns(Serve_result(Head(shutdownErr)), "wait")
  /\ shutdownErr' = Tail(shutdownErr)

\* a peer opens a channel: the library puts a notification on the stream of
\* new channels of its connection
NewChannelArrives(c) ==
  /\ lpc[c] # "off"
  /\ conn[c] = "up"
  /\ nNotifs < notifLimit
  /\ \E nc \in {x \in Notifs : x.from = c} : chanQ' = [chanQ EXCEPT ![c] = Append(@, nc)]
  /\ nNotifs' = nNotifs + 1
  /\ UNCHANGED <<spc, sret, sway, deferLog, wpc, shutdownErr, conn, connErr, connCloseLog, lpc,
                 notifLimit, callLog, pVars>>

\* the handlers not yet started
FreeChans == {n \in Chans : hpc[n] = "off"}

\* faulty variant: the loop calls handleChannel without go, and takes the
\* next notification only when the handler has returned
processChannels_readySerial(c) ==
  lpc[c] = "range" /\ \A n \in Chans : hpc[n] \in {"off", "returned"}

\* the loop is at its range statement: every handler was started with go, so
\* the loop body has ended whatever the handlers are doing
processChannels_ready(c) == lpc[c] = "range"

\* for newCh := range chans { go handleChannel(ctx, destConn, newCh) }
processChannels_next(c) ==
  /\ processChannels_ready(c)
  /\ chanQ[c] # <<>>
  /\ FreeChans # {}
  /\ LET n == CHOOSE m \in FreeChans : \A k \in FreeChans : m <= k IN
       /\ hpc' = [hpc EXCEPT ![n] = "start"]
       /\ notif' = [notif EXCEPT ![n] = Head(chanQ[c])]
  /\ chanQ' = [chanQ EXCEPT ![c] = Tail(@)]
  /\ UNCHANGED <<openLog, openRes, acceptN, rejectLog, bicopyRet, hret, closeLog>>
  /\ UNCHANGED <<spc, sret, sway, deferLog, wpc, shutdownErr, conn, connErr, connCloseLog,
                 lpc, nNotifs, notifLimit, callLog, pVars>>

\* faulty variant: the loop closes nothing when it ends
processChannels_defersNone(c) == <<>>

\* the connections the deferred call of processChannels closes: destConn
processChannels_defers(c) == <<OtherConn(c)>>

\* the stream of new channels of c is closed and drained
processChannels_chansClosed(c) == conn[c] = "down" /\ chanQ[c] = <<>>

\* the range loop ends and the deferred destConn.Close() runs
processChannels_exit(c) ==
  /\ lpc[c] = "range"
  /\ processChannels_chansClosed(c)
  /\ lpc' = [lpc EXCEPT ![c] = "done"]
  /\ connCloseLog' = connCloseLog \o
        [i \in 1..Len(processChannels_defers(c)) |->
           [loop |-> c, conn |-> processChannels_defers(c)[i]]]
  /\ IF processChannels_defers(c) # <<>> THEN ConnClose(OtherConn(c))
                                        ELSE UNCHANGED <<conn, connErr, reqClosed>>
  /\ UNCHANGED <<reqQ, reqSeen, reqLimit, rpc, rcur, rres, retLog, sendLog, sendTo, replyLog, evLog, rerr, sentClosed>>
  /\ UNCHANGED <<spc, sret, sway, deferLog, wpc, shutdownErr, chanQ, nNotifs, notifLimit, callLog, pVars>>

(* ------------------------------ SpecReq ------------------------------- *)
\* the relays of the streams in running are started; the peers send up to
\* limit requests on the streams in sending
InitReqVars(running, sending, limit) ==
  /\ reqQ = [s \in Streams |-> <<>>]
  /\ reqSeen = [s \in Streams |-> <<>>]
  /\ reqLimit = [s \in Streams |-> IF s \in sending THEN limit ELSE 0]
  /\ reqClosed = [s \in Streams |-> FALSE]
  /\ rpc = [s \in Streams |-> IF s \in running THEN "range" ELSE "off"]
  /\ rcur = [s \in Streams |-> NoReq]
  /\ rres = [s \in Streams |-> NoRes]
  /\ retLog = [s \in Streams |-> <<>>]
  /\ sendLog = [s \in Streams |-> <<>>]
  /\ sendTo = [s \in Streams |-> <<>>]
  /\ replyLog = [s \in Streams |-> <<>>]
  /\ evLog = [s \in Streams |-> <<>>]
  /\ rerr = [s \in Streams |-> Nil]
  /\ sentClosed = [s \in Streams |-> FALSE]

\* no channel handler has been started
InitHandlerVars(started) ==
  /\ hpc = [n \in Chans |-> IF n \in started THEN "start" ELSE "off"]
  /\ notif = [n \in Chans |-> IF n \in started THEN OriginSession ELSE NoNotif]
  /\ openLog = [n \in Chans |-> <<>>]
  /\ openRes = [n \in Chans |-> NoOpenRes]
  /\ acceptN = [n \in Chans |-> 0]
  /\ bicopyRet = [n \in Chans |-> "none"]
  /\ rejectLog = [n \in Chans |-> <<>>]
  /\ hret = [n \in Chans |-> Nil]
  /\ closeLog = [n \in Chans |-> <<>>]

\* what the peers write on the streams of the pairs: MaxData bytes in all
InitCopyVars(started) ==
  /\ cwpc = [n \in Chans |-> [w \in ChNames |-> "off"]]
  /\ cpc = [n \in Chans |-> [e \in Ends |-> "off"]]
  /\ cbuf = [n \in Chans |-> [e \in Ends |-> <<>>]]
  /\ \E len \in Budgets(MaxData) :
       inflight = [n \in Chans |-> [e \in Ends |->
                     IF n \in started THEN PeerData(e, len[e]) ELSE <<>>]]
  /\ chState = [n \in Chans |-> [ch \in ChNames |-> "open"]]
  /\ readLog = [n \in Chans |-> [e \in Ends |-> <<>>]]
  /\ written = [n \in Chans |-> [e \in Ends |-> <<>>]]
  /\ copyErrs = [n \in Chans |-> [e \in Ends |-> Nil]]
  /\ closeWriteLog = [n \in Chans |-> <<>>]

\* the dispatcher at position pos (off: ServeProxy is not called; listen: it
\* has been called)
InitProxyVars(pos) ==
  /\ ppc = pos
  /\ pret = Nil
  /\ outerDone = FALSE
  /\ listener = "none"
  /\ tpc = [i \in Tasks |-> "none"]
  /\ tret = [i \in Tasks |-> Nil]
  /\ plog = <<>>

\* the session at position pos (off: no Serve call; dial: Serve has been
\* called; shake: handle has been called); the origin is connected
InitServeVars(pos, limit) ==
  /\ InitProxyVars("off")
  /\ spc = pos
  /\ sret = Nil
  /\ sway = "none"
  /\ deferLog = <<>>
  /\ wpc = "off"
  /\ shutdownErr = <<>>
  /\ conn = [c \in Conns |-> IF c = "origin" \/ pos = "off" THEN "up" ELSE "none"]
  /\ connErr = [c \in Conns |-> Nil]
  /\ connCloseLog = <<>>
  /\ lpc = [c \in Conns |-> "off"]
  /\ chanQ = [c \in Conns |-> <<>>]
  /\ nNotifs = 0
  /\ notifLimit = limit
  /\ callLog = <<>>

\* one relay is running: that of a global request stream or that of a channel's
InitReq ==
  /\ ctxDone = FALSE
  /\ \E s \in {<<0, "serverReqs">>, <<1, "destReqs">>} : InitReqVars({s}, {s}, MaxReqs)
  /\ InitHandlerVars({})
  /\ InitCopyVars({})
  /\ InitServeVars("off", 0)

Running == {s \in Streams : rpc[s] # "off"}

NextReq ==
  \/ CancelCtx /\ UNCHANGED <<reqVars, hVars, cVars, sVars>>
  \/ \E s \in Running : RequestArrives(s) /\ UNCHANGED <<ctxDone, hVars, cVars, sVars>>
  \/ \E s \in Running : RequestStreamCloses(s) /\ UNCHANGED <<ctxDone, hVars, cVars, sVars>>
  \/ \E s \in Running : processRequests_next(s) /\ UNCHANGED <<ctxDone, hVars, cVars, sVars>>
  \/ \E s \in Running : SendRequest_returns(s) /\ UNCHANGED <<ctxDone, hVars, cVars, sVars>>
  \/ \E s \in Running : handleRequest_reply(s) /\ UNCHANGED <<ctxDone, hVars, cVars, sVars>>
  \/ \E s \in Running : processRequests_exit(s) /\ UNCHANGED <<ctxDone, hVars, cVars, sVars>>

SpecReq == InitReq /\ [][NextReq]_vars

(* ---------------------------- SpecHandler ----------------------------- *)
\* the handler of one new-channel notification has been started
InitHandler ==
  /\ ctxDone = FALSE
  /\ InitReqVars({}, {}, 0)
  /\ InitHandlerVars({1})
  /\ InitCopyVars({1})
  /\ InitServeVars("off", 0)

NextHandler ==
  \/ CancelCtx /\ UNCHANGED <<reqVars, hVars, cVars, sVars>>
  \/ \E n \in Chans : handleChannel_open(n) /\ UNCHANGED <<ctxDone, reqVars, cVars, sVars>>
  \/ \E n \in Chans : OpenChannel_returns(n) /\ UNCHANGED <<ctxDone, reqVars, cVars, sVars>>
  \/ \E n \in Chans : handleChannel_reject(n) /\ UNCHANGED <<ctxDone, reqVars, cVars, sVars>>
  \/ \E n \in Chans : handleChannel_acceptFails(n) /\ UNCHANGED <<ctxDone, sVars>>
  \/ \E n \in Chans : handleChannel_accept(n) /\ UNCHANGED <<ctxDone, sVars>>
  \/ \E n \in Chans : bicopy_returnsNil(n) /\ UNCHANGED <<ctxDone, reqVars, cVars, sVars>>
  \/ \E n \in Chans : bicopy_returnsErr(n) /\ UNCHANGED <<ctxDone, reqVars, cVars, sVars>>
  \/ \E n \in Chans : handleChannel_returnsNil(n) /\ UNCHANGED <<ctxDone, reqVars, cVars, sVars>>
  \/ \E n \in Chans : handleChannel_returnsErr(n) /\ UNCHANGED <<ctxDone, reqVars, cVars, sVars>>
  \/ \E n \in Chans, ch \in ChNames : PeerEOF(n, ch) /\ UNCHANGED <<ctxDone, hVars, sVars>>
  \/ \E n \in Chans, ch \in ChNames : PeerCloses(n, ch) /\ UNCHANGED <<ctxDone, hVars, sVars>>
  \/ \E n \in Chans, ch \in ChNames : ChannelFails(n, ch) /\ UNCHANGED <<ctxDone, hVars, sVars>>
  \/ \E n \in Chans, w \in ChNames, k \in Kinds :
       ioCopy_read(n, w, k) /\ UNCHANGED <<ctxDone, reqVars, hVars, sVars>>
  \/ \E n \in Chans, w \in ChNames, k \in Kinds :
       ioCopy_readEOF(n, w, k) /\ UNCHANGED <<ctxDone, reqVars, hVars, sVars>>
  \/ \E n \in Chans, w \in ChNames, k \in Kinds :
       ioCopy_write(n, w, k) /\ UNCHANGED <<ctxDone, reqVars, hVars, sVars>>
  \/ \E n \in Chans, w \in ChNames :
       copyChannels_closeWrite(n, w) /\ UNCHANGED <<ctxDone, reqVars, hVars, sVars>>
  \/ \E s \in Running : processRequests_exit(s) /\ UNCHANGED <<ctxDone, hVars, cVars, sVars>>

SpecHandler == InitHandler /\ [][NextHandler]_vars

\* weak fairness on the proxy's own steps of a channel pair (the Go scheduler
\* runs every runnable goroutine); the peers' steps are not fair
FairHandlerSteps ==
  /\ \A n \in Chans : WF_vars(handleChannel_open(n) /\ UNCHANGED <<ctxDone, reqVars, cVars, sVars>>)
  /\ \A n \in Chans : WF_vars(handleChannel_reject(n) /\ UNCHANGED <<ctxDone, reqVars, cVars, sVars>>)
  /\ \A n \in Chans : WF_vars(handleChannel_accept(n) /\ UNCHANGED <<ctxDone, sVars>>)
  /\ \A n \in Chans : WF_vars(bicopy_returnsNil(n) /\ UNCHANGED <<ctxDone, reqVars, cVars, sVars>>)
  /\ \A n \in Chans : WF_vars(handleChannel_returnsNil(n) /\ UNCHANGED <<ctxDone, reqVars, cVars, sVars>>)
  /\ \A n \in Chans, w \in ChNames, k \in Kinds :
       /\ WF_vars(ioCopy_read(n, w, k) /\ UNCHANGED <<ctxDone, reqVars, hVars, sVars>>)
       /\ WF_vars(ioCopy_readEOF(n, w, k) /\ UNCHANGED <<ctxDone, reqVars, hVars, sVars>>)
       /\ WF_vars(ioCopy_write(n, w, k) /\ UNCHANGED <<ctxDone, reqVars, hVars, sVars>>)
  /\ \A n \in Chans, w \in ChNames :
       WF_vars(copyChannels_closeWrite(n, w) /\ UNCHANGED <<ctxDone, reqVars, hVars, sVars>>)
  /\ \A s \in Streams : WF_vars(processRequests_exit(s) /\ UNCHANGED <<ctxDone, hVars, cVars, sVars>>)

FairHandler == SpecHandler /\ FairHandlerSteps

(* ----------------------------- SpecServe ------------------------------ *)
\* requests the peers send on the global request streams of one session
MaxSessionReqs == 1
\* channels the peers open in one session
MaxSessionChans == 1

\* Serve has been called on an established origin connection. The peers either
\* send requests on one of the two global request streams or open channels;
\* the channels carry no data and are not closed by the peers (an idle session)
InitServe ==
  /\ ctxDone = FALSE
  /\ \/ /\ \E s \in GlobalStreams : InitReqVars({}, {s}, MaxSessionReqs)
        /\ InitServeVars("dial", 0)
     \/ /\ InitReqVars({}, {}, 0)
        /\ InitServeVars("dial", MaxSessionChans)
  /\ InitHandlerVars({})
  /\ InitCopyVars({})

NextServe ==
  \/ CancelCtx /\ UNCHANGED <<reqVars, hVars, cVars, sVars>>
  \/ \E c \in Conns : ConnTerminates(c) /\ UNCHANGED <<ctxDone, hVars, cVars>>
  \/ Serve_dialFails /\ UNCHANGED <<hVars, cVars>>
  \/ Serve_dialed /\ UNCHANGED <<hVars, cVars>>
  \/ Serve_handshakeFails /\ UNCHANGED <<hVars, cVars>>
  \/ Serve_start /\ UNCHANGED <<hVars, cVars>>
  \/ Serve_watcher /\ UNCHANGED <<hVars, cVars>>
  \/ Serve_returnsCtx /\ UNCHANGED <<hVars, cVars>>
  \/ Serve_returnsWait /\ UNCHANGED <<hVars, cVars>>
  \/ \E c \in Conns : NewChannelArrives(c) /\ UNCHANGED <<ctxDone, reqVars, hVars, cVars>>
  \/ \E c \in Conns : processChannels_next(c) /\ UNCHANGED <<ctxDone, reqVars, cVars>>
  \/ \E c \in Conns : processChannels_exit(c) /\ UNCHANGED <<ctxDone, hVars, cVars>>
  \/ \E s \in GlobalStreams : RequestArrives(s) /\ UNCHANGED <<ctxDone, hVars, cVars, sVars>>
  \/ \E s \in GlobalStreams : processRequests_next(s) /\ UNCHANGED <<ctxDone, hVars, cVars, sVars>>
  \/ \E s \in GlobalStreams : SendRequest_returns(s) /\ UNCHANGED <<ctxDone, hVars, cVars, sVars>>
  \/ \E s \in GlobalStreams : handleRequest_reply(s) /\ UNCHANGED <<ctxDone, hVars, cVars, sVars>>
  \/ \E s \in GlobalStreams : processRequests_exit(s) /\ UNCHANGED <<ctxDone, hVars, cVars, sVars>>
  \/ \E n \in Chans : handleChannel_open(n) /\ UNCHANGED <<ctxDone, reqVars, cVars, sVars>>
  \/ \E n \in Chans : OpenChannel_returns(n) /\ UNCHANGED <<ctxDone, reqVars, cVars, sVars>>
  \/ \E n \in Chans : handleChannel_reject(n) /\ UNCHANGED <<ctxDone, reqVars, cVars, sVars>>
  \/ \E n \in Chans : handleChannel_acceptFails(n) /\ UNCHANGED <<ctxDone, sVars>>
  \/ \E n \in Chans : handleChannel_accept(n) /\ UNCHANGED <<ctxDone, sVars>>
  \/ \E n \in Chans : bicopy_returnsErr(n) /\ UNCHANGED <<ctxDone, reqVars, cVars, sVars>>

SpecServe == InitServe /\ [][NextServe]_vars

\* weak fairness on the steps of Serve, its watcher and the new-channel loops
FairServeSteps ==
  /\ WF_vars(Serve_watcher /\ UNCHANGED <<hVars, cVars>>)
  /\ WF_vars(Serve_returnsCtx /\ UNCHANGED <<hVars, cVars>>)
  /\ WF_vars(Serve_returnsWait /\ UNCHANGED <<hVars, cVars>>)
  /\ \A c \in Conns : WF_vars(processChannels_next(c) /\ UNCHANGED <<ctxDone, reqVars, cVars>>)
  /\ \A c \in Conns : WF_vars(processChannels_exit(c) /\ UNCHANGED <<ctxDone, hVars, cVars>>)

FairServe == SpecServe /\ FairServeSteps

(* ------------------------------ SpecChans ----------------------------- *)
\* the pairs whose peers hang: all but the last one opened. The origin of a
\* hanging pair sends nothing and its target sends EOF at most, so that the
\* pair's handler stays blocked in OpenChannel, in bicopy or in its select
HangingChans == {n \in Chans : n < MaxChans}

\* a session in its forwarding phase: Serve is in its select, both loops and
\* both global relays run, and the origin has sent MaxChans session
\* notifications. The target writes one byte on the primary stream of the
\* last pair
InitChans ==
  /\ ctxDone = FALSE
  /\ InitReqVars(GlobalStreams, {}, 0)
  /\ InitHandlerVars({})
  /\ cwpc = [n \in Chans |-> [w \in ChNames |-> "off"]]
  /\ cpc = [n \in Chans |-> [e \in Ends |-> "off"]]
  /\ cbuf = [n \in Chans |-> [e \in Ends |-> <<>>]]
  /\ inflight = [n \in Chans |-> [e \in Ends |->
                   IF n \notin HangingChans /\ e = <<"destCh", "primary">>
                     THEN PeerData(e, 1) ELSE <<>>]]
  /\ chState = [n \in Chans |-> [ch \in ChNames |-> "open"]]
  /\ readLog = [n \in Chans |-> [e \in Ends |-> <<>>]]
  /\ written = [n \in Chans |-> [e \in Ends |-> <<>>]]
  /\ copyErrs = [n \in Chans |-> [e \in Ends |-> Nil]]
  /\ closeWriteLog = [n \in Chans |-> <<>>]
  /\ spc = "select"
  /\ sret = Nil
  /\ sway = "none"
  /\ deferLog = <<>>
  /\ wpc = "wait"
  /\ shutdownErr = <<>>
  /\ conn = [c \in Conns |-> "up"]
  /\ connErr = [c \in Conns |-> Nil]
  /\ connCloseLog = <<>>
  /\ lpc = [c \in Conns |-> "range"]
  /\ chanQ = [c \in Conns |-> IF c = "origin" THEN [i \in 1..MaxChans |-> OriginSession] ELSE <<>>]
  /\ nNotifs = MaxChans
  /\ notifLimit = MaxChans
  /\ callLog = <<"DialTimeout", "NewClientConn">>
  /\ InitProxyVars("off")

NextChans ==
  \/ \E c \in Conns : processChannels_next(c) /\ UNCHANGED <<ctxDone, reqVars, cVars>>
  \/ \E n \in Chans : handleChannel_open(n) /\ UNCHANGED <<ctxDone, reqVars, cVars, sVars>>
  \/ \E n \in Chans : OpenChannel_returns(n) /\ UNCHANGED <<ctxDone, reqVars, cVars, sVars>>
  \/ \E n \in Chans : handleChannel_reject(n) /\ UNCHANGED <<ctxDone, reqVars, cVars, sVars>>
  \/ \E n \in Chans : handleChannel_accept(n) /\ UNCHANGED <<ctxDone, sVars>>
  \/ \E n \in Chans : bicopy_returnsNil(n) /\ UNCHANGED <<ctxDone, reqVars, cVars, sVars>>
  \/ \E n \in Chans : handleChannel_returnsNil(n) /\ UNCHANGED <<ctxDone, reqVars, cVars, sVars>>
  \/ \E n \in HangingChans : PeerEOF(n, "destCh") /\ UNCHANGED <<ctxDone, hVars, sVars>>
  \/ \E n \in Chans \ HangingChans, ch \in ChNames :
       PeerEOF(n, ch) /\ UNCHANGED <<ctxDone, hVars, sVars>>
  \/ \E n \in Chans \ HangingChans, ch \in ChNames :
       PeerCloses(n, ch) /\ UNCHANGED <<ctxDone, hVars, sVars>>
  \/ \E n \in Chans, w \in ChNames, k \in Kinds :
       ioCopy_read(n, w, k) /\ UNCHANGED <<ctxDone, reqVars, hVars, sVars>>
  \/ \E n \in Chans, w \in ChNames, k \in Kinds :
       ioCopy_readEOF(n, w, k) /\ UNCHANGED <<ctxDone, reqVars, hVars, sVars>>
  \/ \E n \in Chans, w \in ChNames, k \in Kinds :
       ioCopy_write(n, w, k) /\ UNCHANGED <<ctxDone, reqVars, hVars, sVars>>
  \/ \E n \in Chans, w \in ChNames :
       copyChannels_closeWrite(n, w) /\ UNCHANGED <<ctxDone, reqVars, hVars, sVars>>
  \/ \E s \in ChannelStreams : processRequests_exit(s) /\ UNCHANGED <<ctxDone, hVars, cVars, sVars>>

SpecChans == InitChans /\ [][NextChans]_vars

(* ----------------------------- SpecDispatch --------------------------- *)
errServerHandshake == <<"ssh: no auth passed yet">>
errRoute == <<"no route">>

\* faulty variant: handle defers cancel() only
handle_defersCancelOnly == <<"handle.cancel">>

\* the deferred calls handle runs when it returns, in the order they run:
\* defer conn.Close() is registered first and defer cancel() second
handle_defers == <<"handle.cancel", "conn.Close">>

\* if err != nil && !errors.Is(err, io.EOF) { log.Default().Printf(...) }
ServeProxy_logs(err) == err # Nil /\ ~errors_Is(err, io_EOF)

\* handle returns: its deferred calls run, cancel() then conn.Close() on the
\* origin's socket, which ends the origin connection; the goroutine that
\* called handle gives the error it returned to the logger unless it is EOF
handle_exit ==
  /\ spc' = "handled"
  /\ deferLog' = deferLog \o handle_defers
  /\ ctxDone' = TRUE
  /\ IF \E i \in 1..Len(handle_defers) : handle_defers[i] = "conn.Close"
     THEN ConnClose("origin")
     ELSE UNCHANGED <<conn, connErr, reqClosed>>
  /\ UNCHANGED <<reqQ, reqSeen, reqLimit, rpc, rcur, rres, retLog, sendLog, sendTo, replyLog, evLog, rerr, sentClosed>>
  /\ plog' = (IF ServeProxy_logs(sret') THEN Append(plog, sret') ELSE plog)
  /\ UNCHANGED <<wpc, shutdownErr, connCloseLog, lpc, chanQ, nNotifs, notifLimit>>
  /\ UNCHANGED <<ppc, pret, outerDone, listener, tpc, tret>>

\* ssh.NewServerConn fails: handle returns the error
handle_handshakeFails ==
  /\ spc = "shake"
  /\ callLog' = Append(callLog, "NewServerConn")
  /\ \E err \in {io_EOF, errServerHandshake} : sret' = err
  /\ sway' = "shake"
  /\ handle_exit

\* ssh.NewServerConn succeeds
handle_handshaked ==
  /\ spc = "shake"
  /\ spc' = "route"
  /\ callLog' = Append(callLog, "NewServerConn")
  /\ UNCHANGED <<ctxDone, reqVars>>
  /\ UNCHANGED <<sret, sway, deferLog, wpc, shutdownErr, conn, connErr, connCloseLog, lpc,
                 chanQ, nNotifs, notifLimit, pVars>>

\* faulty variant: a route error is ignored and Serve is called
handle_routeFailsServes == "dial"

\* the position of handle after router.Route has failed: it returns
handle_routeFailsReturns == "handled"

\* router.Route fails: handle returns the error
handle_routeFails ==
  /\ spc = "route"
  /\ callLog' = callLog \o <<"Route", "Route failed">>
  /\ IF handle_routeFailsReturns = "handled"
     THEN /\ sret' = errRoute
          /\ sway' = "route"
          /\ handle_exit
     ELSE /\ spc' = handle_routeFailsReturns
          /\ UNCHANGED <<ctxDone, reqVars>>
          /\ UNCHANGED <<sret, sway, deferLog, wpc, shutdownErr, conn, connErr, connCloseLog,
                         lpc, chanQ, nNotifs, notifLimit, pVars>>

\* router.Route succeeds: NewSingleHostReverseProxy, then rp.Serve is called
handle_routed ==
  /\ spc = "route"
  /\ spc' = "dial"
  /\ callLog' = callLog \o <<"Route", "Serve">>
  /\ UNCHANGED <<ctxDone, reqVars>>
  /\ UNCHANGED <<sret, sway, deferLog, wpc, shutdownErr, conn, connErr, connCloseLog, lpc,
                 chanQ, nNotifs, notifLimit, pVars>>

\* rp.Serve has returned: handle returns what it returned
handle_returns ==
  /\ spc = "returned"
  /\ UNCHANGED <<sret, sway, callLog>>
  /\ handle_exit

\* handle has been called with the socket of an accepted origin connection
InitDispatch ==
  /\ ctxDone = FALSE
  /\ \/ /\ \E s \in GlobalStreams : InitReqVars({}, {s}, MaxSessionReqs)
        /\ InitServeVars("shake", 0)
     \/ /\ InitReqVars({}, {}, 0)
        /\ InitServeVars("shake", MaxSessionChans)
  /\ InitHandlerVars({})
  /\ InitCopyVars({})

\* the session as the dispatcher runs it
NextDispatch ==
  \/ NextServe
  \/ handle_handshakeFails /\ UNCHANGED <<hVars, cVars>>
  \/ handle_handshaked /\ UNCHANGED <<hVars, cVars>>
  \/ handle_routeFails /\ UNCHANGED <<hVars, cVars>>
  \/ handle_routed /\ UNCHANGED <<hVars, cVars>>
  \/ handle_returns /\ UNCHANGED <<hVars, cVars>>

SpecDispatch == InitDispatch /\ [][NextDispatch]_vars

(* ------------------------------ SpecProxy ----------------------------- *)
\* the session variables, which the dispatcher's steps leave alone: in this
\* specification a connection's task is followed from the outside, by the
\* calls it makes and the value handle returns
connVars == <<spc, sret, sway, deferLog, wpc, shutdownErr, conn, connErr,
              connCloseLog, lpc, chanQ, nNotifs, notifLimit, callLog>>

\* the process runs: no goroutine has panicked
Alive == ppc \notin {"off", "crashed"}

\* the iteration the accept loop is in
ServeProxy_iteration == Cardinality({i \in Tasks : tpc[i] # "none"}) + 1

\* net.Listen fails: ServeProxy returns the error
ServeProxy_listenFails ==
  /\ ppc = "listen"
  /\ ppc' = "returned"
  /\ pret' = errListen
  /\ UNCHANGED <<outerDone, listener, tpc, tret, plog>>

\* net.Listen succeeds; the goroutine that closes the listener is started
ServeProxy_listens ==
  /\ ppc = "listen"
  /\ ppc' = "accept"
  /\ listener' = "open"
  /\ UNCHANGED <<pret, outerDone, tpc, tret, plog>>

\* the caller cancels the context given to ServeProxy
CancelOuter ==
  /\ Alive
  /\ ~outerDone
  /\ outerDone' = TRUE
  /\ UNCHANGED <<ppc, pret, listener, tpc, tret, plog>>

\* go func() { defer listener.Close(); <-ctx.Done() }()
ServeProxy_closer ==
  /\ Alive
  /\ listener = "open"
  /\ outerDone
  /\ listener' = "closed"
  /\ UNCHANGED <<ppc, pret, outerDone, tpc, tret, plog>>

\* listener.Accept() returns a connection: go handle(ctx, conn, ...)
ServeProxy_accepts ==
  /\ ppc = "accept"
  /\ listener = "open"
  /\ ServeProxy_iteration \in Tasks
  /\ tpc' = [tpc EXCEPT ![ServeProxy_iteration] = "handle"]
  /\ UNCHANGED <<ppc, pret, outerDone, listener, tret, plog>>

\* listener.Accept() returns net.ErrClosed: ServeProxy returns it
ServeProxy_returns ==
  /\ ppc = "accept"
  /\ listener = "closed"
  /\ ppc' = "returned"
  /\ pret' = Wrap("accept tcp", net_ErrClosed)
  /\ UNCHANGED <<outerDone, listener, tpc, tret, plog>>

\* listener.Accept() returns another error, and a nil connection with it: the
\* condition of the return is false and the loop body goes on to
\* go handle(ctx, conn, ...) with the nil connection
ServeProxy_acceptFails ==
  /\ ppc = "accept"
  /\ listener = "open"
  /\ ServeProxy_iteration \in Tasks
  /\ ~errors_Is(Wrap("accept tcp", errAccept), net_ErrClosed)
  /\ tpc' = [tpc EXCEPT ![ServeProxy_iteration] = "handleNil"]
  /\ UNCHANGED <<ppc, pret, outerDone, listener, tret, plog>>

\* handle with a nil connection: defer conn.Close() on the nil interface
\* panics in the goroutine, which ends the process
ServeProxy_handlePanics(i) ==
  /\ Alive
  /\ tpc[i] = "handleNil"
  /\ ppc' = "crashed"
  /\ UNCHANGED <<pret, outerDone, listener, tpc, tret, plog>>

\* handle has returned err in the goroutine of iteration i
ServeProxy_handleReturned(i, err) ==
  /\ tpc' = [tpc EXCEPT ![i] = "done"]
  /\ tret' = [tret EXCEPT ![i] = err]
  /\ plog' = (IF ServeProxy_logs(err) THEN Append(plog, err) ELSE plog)
  /\ UNCHANGED <<ppc, pret, outerDone, listener>>

\* the errors handle returns before Serve has reached its select
SetupErrors ==
  {io_EOF, errServerHandshake, errRoute,
   Serve_dialError(errDial), Serve_handshakeError(errHandshake)}

\* the server handshake, the routing, the dial or the client handshake fails
ServeProxy_handleFails(i) ==
  /\ Alive
  /\ tpc[i] = "handle"
  /\ \E err \in SetupErrors : ServeProxy_handleReturned(i, err)

\* both handshakes succeed and Serve reaches its select
ServeProxy_handleServes(i) ==
  /\ Alive
  /\ tpc[i] = "handle"
  /\ tpc' = [tpc EXCEPT ![i] = "serve"]
  /\ UNCHANGED <<ppc, pret, outerDone, listener, tret, plog>>

\* the context of iteration i's Serve, derived from handle's, itself derived
\* from ServeProxy's, is cancelled: Serve returns ctx.Err() and handle too
ServeProxy_handleCanceled(i) ==
  /\ Alive
  /\ tpc[i] = "serve"
  /\ outerDone
  /\ ServeProxy_handleReturned(i, Serve_result(context_Canceled))

\* the origin connection ends: Serve returns what Wait returned, handle too
ServeProxy_handleWaitEnds(i) ==
  /\ Alive
  /\ tpc[i] = "serve"
  /\ \E err \in {io_EOF, errTransport, errClosed} :
       ServeProxy_handleReturned(i, Serve_result(err))

InitProxy ==
  /\ ctxDone = FALSE
  /\ InitReqVars({}, {}, 0)
  /\ InitHandlerVars({})
  /\ InitCopyVars({})
  /\ spc = "off"
  /\ sret = Nil
  /\ sway = "none"
  /\ deferLog = <<>>
  /\ wpc = "off"
  /\ shutdownErr = <<>>
  /\ conn = [c \in Conns |-> "none"]
  /\ connErr = [c \in Conns |-> Nil]
  /\ connCloseLog = <<>>
  /\ lpc = [c \in Conns |-> "off"]
  /\ chanQ = [c \in Conns |-> <<>>]
  /\ nNotifs = 0
  /\ notifLimit = 0
  /\ callLog = <<>>
  /\ InitProxyVars("listen")

NextProxy ==
  \/ ServeProxy_listenFails /\ UNCHANGED <<ctxDone, reqVars, hVars, cVars, connVars>>
  \/ ServeProxy_listens /\ UNCHANGED <<ctxDone, reqVars, hVars, cVars, connVars>>
  \/ CancelOuter /\ UNCHANGED <<ctxDone, reqVars, hVars, cVars, connVars>>
  \/ ServeProxy_closer /\ UNCHANGED <<ctxDone, reqVars, hVars, cVars, connVars>>
  \/ ServeProxy_accepts /\ UNCHANGED <<ctxDone, reqVars, hVars, cVars, connVars>>
  \/ ServeProxy_returns /\ UNCHANGED <<ctxDone, reqVars, hVars, cVars, connVars>>
  \/ ServeProxy_acceptFails /\ UNCHANGED <<ctxDone, reqVars, hVars, cVars, connVars>>
  \/ \E i \in Tasks :
       ServeProxy_handlePanics(i) /\ UNCHANGED <<ctxDone, reqVars, hVars, cVars, connVars>>
  \/ \E i \in Tasks :
       ServeProxy_handleFails(i) /\ UNCHANGED <<ctxDone, reqVars, hVars, cVars, connVars>>
  \/ \E i \in Tasks :
       ServeProxy_handleServes(i) /\ UNCHANGED <<ctxDone, reqVars, hVars, cVars, connVars>>
  \/ \E i \in Tasks :
       ServeProxy_handleCanceled(i) /\ UNCHANGED <<ctxDone, reqVars, hVars, cVars, connVars>>
  \/ \E i \in Tasks :
       ServeProxy_handleWaitEnds(i) /\ UNCHANGED <<ctxDone, reqVars, hVars, cVars, connVars>>

SpecProxy == InitProxy /\ [][NextProxy]_vars

\* weak fairness on the dispatcher's own steps: the return of net.Listen, the
\* closer goroutine, the return of Accept on a closed listener, the panic of a goroutine called with
\* a nil connection, and Serve's return on a cancelled context; the peers'
\* connections and failures are not fair
FairProxySteps ==
  /\ WF_vars((ServeProxy_listens \/ ServeProxy_listenFails)
               /\ UNCHANGED <<ctxDone, reqVars, hVars, cVars, connVars>>)
  /\ WF_vars(ServeProxy_closer /\ UNCHANGED <<ctxDone, reqVars, hVars, cVars, connVars>>)
  /\ WF_vars(ServeProxy_returns /\ UNCHANGED <<ctxDone, reqVars, hVars, cVars, connVars>>)
  /\ \A i \in Tasks :
       WF_vars(ServeProxy_handlePanics(i) /\ UNCHANGED <<ctxDone, reqVars, hVars, cVars, connVars>>)
  /\ \A i \in Tasks :
       WF_vars(ServeProxy_handleCanceled(i) /\ UNCHANGED <<ctxDone, reqVars, hVars, cVars, connVars>>)

FairProxy == SpecProxy /\ FairProxySteps

(* ------------------------------ SpecExec ------------------------------ *)
\* the target sends a request on the request stream of its channel of pair n
\* (exit-status, for one): the stream exists once OpenChannel has returned it
ChannelRequestArrives(n) ==
  /\ openRes[n] = OpenOK
  /\ chState[n]["destCh"] # "closed"
  /\ RequestArrives(<<n, "destReqs">>)

\* the handler of one session channel has been started; the target writes one
\* byte on the primary stream of its channel and sends at most one request on
\* the channel's request stream; the origin writes nothing
InitExec ==
  /\ ctxDone = FALSE
  /\ InitReqVars({}, {<<1, "destReqs">>}, 1)
  /\ InitHandlerVars({1})
  /\ cwpc = [n \in Chans |-> [w \in ChNames |-> "off"]]
  /\ cpc = [n \in Chans |-> [e \in Ends |-> "off"]]
  /\ cbuf = [n \in Chans |-> [e \in Ends |-> <<>>]]
  /\ inflight = [n \in Chans |-> [e \in Ends |->
                   IF n = 1 /\ e = <<"destCh", "primary">> THEN PeerData(e, 1) ELSE <<>>]]
  /\ chState = [n \in Chans |-> [ch \in ChNames |-> "open"]]
  /\ readLog = [n \in Chans |-> [e \in Ends |-> <<>>]]
  /\ written = [n \in Chans |-> [e \in Ends |-> <<>>]]
  /\ copyErrs = [n \in Chans |-> [e \in Ends |-> Nil]]
  /\ closeWriteLog = [n \in Chans |-> <<>>]
  /\ InitServeVars("off", 0)

NextExec ==
  \/ CancelCtx /\ UNCHANGED <<reqVars, hVars, cVars, sVars>>
  \/ \E n \in Chans : handleChannel_open(n) /\ UNCHANGED <<ctxDone, reqVars, cVars, sVars>>
  \/ \E n \in Chans : OpenChannel_returns(n) /\ UNCHANGED <<ctxDone, reqVars, cVars, sVars>>
  \/ \E n \in Chans : handleChannel_reject(n) /\ UNCHANGED <<ctxDone, reqVars, cVars, sVars>>
  \/ \E n \in Chans : handleChannel_acceptFails(n) /\ UNCHANGED <<ctxDone, sVars>>
  \/ \E n \in Chans : handleChannel_accept(n) /\ UNCHANGED <<ctxDone, sVars>>
  \/ \E n \in Chans : bicopy_returnsNil(n) /\ UNCHANGED <<ctxDone, reqVars, cVars, sVars>>
  \/ \E n \in Chans : bicopy_returnsErr(n) /\ UNCHANGED <<ctxDone, reqVars, cVars, sVars>>
  \/ \E n \in Chans : handleChannel_returnsNil(n) /\ UNCHANGED <<ctxDone, reqVars, cVars, sVars>>
  \/ \E n \in Chans : handleChannel_returnsErr(n) /\ UNCHANGED <<ctxDone, reqVars, cVars, sVars>>
  \/ \E n \in Chans, ch \in ChNames : PeerEOF(n, ch) /\ UNCHANGED <<ctxDone, hVars, sVars>>
  \/ \E n \in Chans, ch \in ChNames : PeerCloses(n, ch) /\ UNCHANGED <<ctxDone, hVars, sVars>>
  \/ \E n \in Chans, ch \in ChNames : ChannelFails(n, ch) /\ UNCHANGED <<ctxDone, hVars, sVars>>
  \/ \E n \in Chans, w \in ChNames, k \in Kinds :
       ioCopy_read(n, w, k) /\ UNCHANGED <<ctxDone, reqVars, hVars, sVars>>
  \/ \E n \in Chans, w \in ChNames, k \in Kinds :
       ioCopy_readEOF(n, w, k) /\ UNCHANGED <<ctxDone, reqVars, hVars, sVars>>
  \/ \E n \in Chans, w \in ChNames, k \in Kinds :
       ioCopy_write(n, w, k) /\ UNCHANGED <<ctxDone, reqVars, hVars, sVars>>
  \/ \E n \in Chans, w \in ChNames :
       copyChannels_closeWrite(n, w) /\ UNCHANGED <<ctxDone, reqVars, hVars, sVars>>
  \/ \E n \in Chans : ChannelRequestArrives(n) /\ UNCHANGED <<ctxDone, hVars, cVars, sVars>>
  \/ \E s \in ChannelStreams : processRequests_next(s) /\ UNCHANGED <<ctxDone, hVars, cVars, sVars>>
  \/ \E s \in ChannelStreams : SendRequest_returns(s) /\ UNCHANGED <<ctxDone, hVars, cVars, sVars>>
  \/ \E s \in ChannelStreams : handleRequest_reply(s) /\ UNCHANGED <<ctxDone, hVars, cVars, sVars>>
  \/ \E s \in ChannelStreams : processRequests_exit(s) /\ UNCHANGED <<ctxDone, hVars, cVars, sVars>>

SpecExec == InitExec /\ [][NextExec]_vars

(* ---------------------------- FairTeardown --------------------------- *)
\* a step of a goroutine the session started: a global request relay or a
\* channel handler
SessionTaskStep ==
  \/ \E s \in GlobalStreams : processRequests_next(s) /\ UNCHANGED <<ctxDone, hVars, cVars, sVars>>
  \/ \E s \in GlobalStreams : SendRequest_returns(s) /\ UNCHANGED <<ctxDone, hVars, cVars, sVars>>
  \/ \E s \in GlobalStreams : handleRequest_reply(s) /\ UNCHANGED <<ctxDone, hVars, cVars, sVars>>
  \/ \E s \in GlobalStreams : processRequests_exit(s) /\ UNCHANGED <<ctxDone, hVars, cVars, sVars>>
  \/ \E n \in Chans : handleChannel_open(n) /\ UNCHANGED <<ctxDone, reqVars, cVars, sVars>>
  \/ \E n \in Chans : OpenChannel_returns(n) /\ UNCHANGED <<ctxDone, reqVars, cVars, sVars>>
  \/ \E n \in Chans : handleChannel_reject(n) /\ UNCHANGED <<ctxDone, reqVars, cVars, sVars>>
  \/ \E n \in Chans : handleChannel_acceptFails(n) /\ UNCHANGED <<ctxDone, sVars>>
  \/ \E n \in Chans : handleChannel_accept(n) /\ UNCHANGED <<ctxDone, sVars>>
  \/ \E n \in Chans : bicopy_returnsErr(n) /\ UNCHANGED <<ctxDone, reqVars, cVars, sVars>>

\* the session of SpecServe with every goroutine scheduled: the steps of
\* Serve, its watcher and the new-channel loops, and the steps of the global
\* relays and of the handlers (a call into the library returns)
FairTeardown == SpecServe /\ FairServeSteps /\ WF_vars(SessionTaskStep)

(* ----------------------------- SpecBlocked ---------------------------- *)
\* the streams one of which has a destination that never answers: the
\* origin's global requests, or the requests of the inbound channel of pair 1
BlockedCandidates == {<<0, "serverReqs">>, <<1, "originRequests">>}

\* the notification of a channel the target opens
TargetForwarded == [from |-> "target", chanType |-> "forwarded-tcpip", extraData |-> <<9>>]

\* the requests the peers send when the destination of stream b never
\* answers: two on b, and one on each of two streams that b must not block:
\* the global streams of the other direction and of a channel, or the other
\* direction of the same channel and the same direction of another channel
BlockedLimits(b) ==
  [s \in Streams |->
     IF s = b THEN 2
     ELSE IF b \in GlobalStreams /\ s \in {<<0, "destReqs">>, <<1, "originRequests">>} THEN 1
     ELSE IF b \notin GlobalStreams /\ s \in {<<1, "destReqs">>, <<2, "originRequests">>} THEN 1
     ELSE 0]

\* the streams whose destination never answers
Unanswered == {s \in Streams : reqLimit[s] = 2}

\* a session in its forwarding phase: Serve is in its select, both loops and
\* both global relays run, each peer has opened one channel; the peers send
\* requests on the global streams and on the channels' streams, and the
\* target of pair 1 writes one byte on the primary stream
InitBlocked ==
  /\ ctxDone = FALSE
  /\ reqQ = [s \in Streams |-> <<>>]
  /\ reqSeen = [s \in Streams |-> <<>>]
  /\ \E b \in BlockedCandidates : reqLimit = BlockedLimits(b)
  /\ reqClosed = [s \in Streams |-> FALSE]
  /\ rpc = [s \in Streams |-> IF s \in GlobalStreams THEN "range" ELSE "off"]
  /\ rcur = [s \in Streams |-> NoReq]
  /\ rres = [s \in Streams |-> NoRes]
  /\ retLog = [s \in Streams |-> <<>>]
  /\ sendLog = [s \in Streams |-> <<>>]
  /\ sendTo = [s \in Streams |-> <<>>]
  /\ replyLog = [s \in Streams |-> <<>>]
  /\ evLog = [s \in Streams |-> <<>>]
  /\ rerr = [s \in Streams |-> Nil]
  /\ sentClosed = [s \in Streams |-> FALSE]
  /\ InitHandlerVars({})
  /\ cwpc = [n \in Chans |-> [w \in ChNames |-> "off"]]
  /\ cpc = [n \in Chans |-> [e \in Ends |-> "off"]]
  /\ cbuf = [n \in Chans |-> [e \in Ends |-> <<>>]]
  /\ inflight = [n \in Chans |-> [e \in Ends |->
                   IF n = 1 /\ e = <<"destCh", "primary">> THEN PeerData(e, 1) ELSE <<>>]]
  /\ chState = [n \in Chans |-> [ch \in ChNames |-> "open"]]
  /\ readLog = [n \in Chans |-> [e \in Ends |-> <<>>]]
  /\ written = [n \in Chans |-> [e \in Ends |-> <<>>]]
  /\ copyErrs = [n \in Chans |-> [e \in Ends |-> Nil]]
  /\ closeWriteLog = [n \in Chans |-> <<>>]
  /\ spc = "select"
  /\ sret = Nil
  /\ sway = "none"
  /\ deferLog = <<>>
  /\ wpc = "wait"
  /\ shutdownErr = <<>>
  /\ conn = [c \in Conns |-> "up"]
  /\ connErr = [c \in Conns |-> Nil]
  /\ connCloseLog = <<>>
  /\ lpc = [c \in Conns |-> "range"]
  /\ chanQ = [c \in Conns |-> IF c = "origin" THEN <<OriginSession>> ELSE <<TargetForwarded>>]
  /\ nNotifs = 2
  /\ notifLimit = 2
  /\ callLog = <<"DialTimeout", "NewClientConn">>
  /\ InitProxyVars("off")

\* a peer sends a request on a stream that exists (a global stream, or the
\* stream of a channel of an established pair); here every request is an
\* exec request that wants a reply
PeerRequestArrives(s) ==
  /\ rpc[s] # "off"
  /\ RequestArrives(s)
  /\ LET req == reqSeen'[s][Len(reqSeen'[s])] IN req.wantReply /\ req.name = "exec"

\* the destination of a stream that is answered accepts the request
SendRequest_accepted(s) ==
  /\ s \notin Unanswered
  /\ SendRequest_returns(s)
  /\ rres'[s].err = Nil /\ rres'[s].ok /\ rres'[s].payload = <<>>

\* the reply to the originator is delivered
handleRequest_replied(s) ==
  /\ handleRequest_reply(s)
  /\ rerr'[s] = Nil

\* the destination confirms the channel
OpenChannel_confirmed(n) ==
  /\ OpenChannel_returns(n)
  /\ openRes'[n] = OpenOK

NextBlocked ==
  \/ \E c \in Conns : processChannels_next(c) /\ UNCHANGED <<ctxDone, reqVars, cVars>>
  \/ \E n \in Chans : handleChannel_open(n) /\ UNCHANGED <<ctxDone, reqVars, cVars, sVars>>
  \/ \E n \in Chans : OpenChannel_confirmed(n) /\ UNCHANGED <<ctxDone, reqVars, cVars, sVars>>
  \/ \E n \in Chans : handleChannel_accept(n) /\ UNCHANGED <<ctxDone, sVars>>
  \/ \E n \in Chans, w \in ChNames, k \in Kinds :
       ioCopy_read(n, w, k) /\ UNCHANGED <<ctxDone, reqVars, hVars, sVars>>
  \/ \E n \in Chans, w \in ChNames, k \in Kinds :
       ioCopy_write(n, w, k) /\ UNCHANGED <<ctxDone, reqVars, hVars, sVars>>
  \/ \E s \in Streams : PeerRequestArrives(s) /\ UNCHANGED <<ctxDone, hVars, cVars, sVars>>
  \/ \E s \in Streams : processRequests_next(s) /\ UNCHANGED <<ctxDone, hVars, cVars, sVars>>
  \/ \E s \in Streams : SendRequest_accepted(s) /\ UNCHANGED <<ctxDone, hVars, cVars, sVars>>
  \/ \E s \in Streams : handleRequest_replied(s) /\ UNCHANGED <<ctxDone, hVars, cVars, sVars>>

SpecBlocked == InitBlocked /\ [][NextBlocked]_vars

(* ---------------------------- SpecOutbound ---------------------------- *)
\* the origin sends a request on the request stream of its channel, which it
\* can do until it has closed the channel
OriginRequestArrives(n) ==
  /\ Accepted(n)
  /\ RequestArrives(<<n, "originRequests">>)

\* the handler of one session channel has been started; the channel carries
\* no data and the origin sends at most one request on it
InitOutbound ==
  /\ ctxDone = FALSE
  /\ InitReqVars({}, {<<1, "originRequests">>}, 1)
  /\ InitHandlerVars({1})
  /\ cwpc = [n \in Chans |-> [w \in ChNames |-> "off"]]
  /\ cpc = [n \in Chans |-> [e \in Ends |-> "off"]]
  /\ cbuf = [n \in Chans |-> [e \in Ends |-> <<>>]]
  /\ inflight = [n \in Chans |-> [e \in Ends |-> <<>>]]
  /\ chState = [n \in Chans |-> [ch \in ChNames |-> "open"]]
  /\ readLog = [n \in Chans |-> [e \in Ends |-> <<>>]]
  /\ written = [n \in Chans |-> [e \in Ends |-> <<>>]]
  /\ copyErrs = [n \in Chans |-> [e \in Ends |-> Nil]]
  /\ closeWriteLog = [n \in Chans |-> <<>>]
  /\ InitServeVars("off", 0)

NextOutbound ==
  \/ CancelCtx /\ UNCHANGED <<reqVars, hVars, cVars, sVars>>
  \/ \E n \in Chans : handleChannel_open(n) /\ UNCHANGED <<ctxDone, reqVars, cVars, sVars>>
  \/ \E n \in Chans : OpenChannel_returns(n) /\ UNCHANGED <<ctxDone, reqVars, cVars, sVars>>
  \/ \E n \in Chans : handleChannel_reject(n) /\ UNCHANGED <<ctxDone, reqVars, cVars, sVars>>
  \/ \E n \in Chans : handleChannel_accept(n) /\ UNCHANGED <<ctxDone, sVars>>
  \/ \E n \in Chans : bicopy_returnsNil(n) /\ UNCHANGED <<ctxDone, reqVars, cVars, sVars>>
  \/ \E n \in Chans : bicopy_returnsErr(n) /\ UNCHANGED <<ctxDone, reqVars, cVars, sVars>>
  \/ \E n \in Chans : handleChannel_returnsNil(n) /\ UNCHANGED <<ctxDone, reqVars, cVars, sVars>>
  \/ \E n \in Chans : handleChannel_returnsErr(n) /\ UNCHANGED <<ctxDone, reqVars, cVars, sVars>>
  \/ \E n \in Chans, ch \in ChNames : PeerEOF(n, ch) /\ UNCHANGED <<ctxDone, hVars, sVars>>
  \/ \E n \in Chans, ch \in ChNames : PeerCloses(n, ch) /\ UNCHANGED <<ctxDone, hVars, sVars>>
  \/ \E n \in Chans, w \in ChNames, k \in Kinds :
       ioCopy_readEOF(n, w, k) /\ UNCHANGED <<ctxDone, reqVars, hVars, sVars>>
  \/ \E n \in Chans, w \in ChNames :
       copyChannels_closeWrite(n, w) /\ UNCHANGED <<ctxDone, reqVars, hVars, sVars>>
  \/ \E n \in Chans : OriginRequestArrives(n) /\ UNCHANGED <<ctxDone, hVars, cVars, sVars>>
  \/ \E s \in ChannelStreams : processRequests_next(s) /\ UNCHANGED <<ctxDone, hVars, cVars, sVars>>
  \/ \E s \in ChannelStreams : SendRequest_returns(s) /\ UNCHANGED <<ctxDone, hVars, cVars, sVars>>
  \/ \E s \in ChannelStreams : handleRequest_reply(s) /\ UNCHANGED <<ctxDone, hVars, cVars, sVars>>
  \/ \E s \in ChannelStreams : processRequests_exit(s) /\ UNCHANGED <<ctxDone, hVars, cVars, sVars>>

SpecOutbound == InitOutbound /\ [][NextOutbound]_vars

\* the peer of a channel the handler has closed answers with its own close,
\* as the protocol requires of it
PeerAnswersClose(n, ch) ==
  /\ InSeq(ch, closeLog[n])
  /\ PeerCloses(n, ch)

\* weak fairness on the steps of the relays of a channel's request streams,
\* and on the peers' answers to the handler's Close
FairOutboundSteps ==
  /\ \A s \in ChannelStreams :
       /\ WF_vars(processRequests_next(s) /\ UNCHANGED <<ctxDone, hVars, cVars, sVars>>)
       /\ WF_vars(SendRequest_returns(s) /\ UNCHANGED <<ctxDone, hVars, cVars, sVars>>)
       /\ WF_vars(handleRequest_reply(s) /\ UNCHANGED <<ctxDone, hVars, cVars, sVars>>)
       /\ WF_vars(processRequests_exit(s) /\ UNCHANGED <<ctxDone, hVars, cVars, sVars>>)
  /\ \A n \in Chans, ch \in ChNames :
       WF_vars(PeerAnswersClose(n, ch) /\ UNCHANGED <<ctxDone, hVars, sVars>>)

FairOutbound == SpecOutbound /\ FairOutboundSteps

(* ------------------------------ SpecPairs ----------------------------- *)
\* the requests the peers send on the channels' streams: the origin one on
\* its channel of the first pair, the target one on its channel of the last
PairLimits ==
  [s \in Streams |->
     IF s \in {<<1, "originRequests">>, <<MaxChans, "destReqs">>} THEN 1 ELSE 0]

\* a session in its forwarding phase whose loop has started the handlers of
\* MaxChans session channels opened by the origin. The origin writes one byte on the primary stream of the
\* first pair and its peers keep that pair open; the target writes one byte
\* on the primary stream of the last pair, whose peers end it
InitPairs ==
  /\ ctxDone = FALSE
  /\ reqQ = [s \in Streams |-> <<>>]
  /\ reqSeen = [s \in Streams |-> <<>>]
  /\ reqLimit = PairLimits
  /\ reqClosed = [s \in Streams |-> FALSE]
  /\ rpc = [s \in Streams |-> IF s \in GlobalStreams THEN "range" ELSE "off"]
  /\ rcur = [s \in Streams |-> NoReq]
  /\ rres = [s \in Streams |-> NoRes]
  /\ retLog = [s \in Streams |-> <<>>]
  /\ sendLog = [s \in Streams |-> <<>>]
  /\ sendTo = [s \in Streams |-> <<>>]
  /\ replyLog = [s \in Streams |-> <<>>]
  /\ evLog = [s \in Streams |-> <<>>]
  /\ rerr = [s \in Streams |-> Nil]
  /\ sentClosed = [s \in Streams |-> FALSE]
  /\ InitHandlerVars(Chans)
  /\ cwpc = [n \in Chans |-> [w \in ChNames |-> "off"]]
  /\ cpc = [n \in Chans |-> [e \in Ends |-> "off"]]
  /\ cbuf = [n \in Chans |-> [e \in Ends |-> <<>>]]
  /\ inflight = [n \in Chans |-> [e \in Ends |->
                   IF (n = 1 /\ e = <<"originCh", "primary">>)
                        \/ (n = MaxChans /\ e = <<"destCh", "primary">>)
                     THEN PeerData(e, 1) ELSE <<>>]]
  /\ chState = [n \in Chans |-> [ch \in ChNames |-> "open"]]
  /\ readLog = [n \in Chans |-> [e \in Ends |-> <<>>]]
  /\ written = [n \in Chans |-> [e \in Ends |-> <<>>]]
  /\ copyErrs = [n \in Chans |-> [e \in Ends |-> Nil]]
  /\ closeWriteLog = [n \in Chans |-> <<>>]
  /\ spc = "select"
  /\ sret = Nil
  /\ sway = "none"
  /\ deferLog = <<>>
  /\ wpc = "wait"
  /\ shutdownErr = <<>>
  /\ conn = [c \in Conns |-> "up"]
  /\ connErr = [c \in Conns |-> Nil]
  /\ connCloseLog = <<>>
  /\ lpc = [c \in Conns |-> "range"]
  /\ chanQ = [c \in Conns |-> <<>>]
  /\ nNotifs = MaxChans
  /\ notifLimit = MaxChans
  /\ callLog = <<"DialTimeout", "NewClientConn">>
  /\ InitProxyVars("off")

NextPairs ==
  \/ \E n \in Chans : handleChannel_open(n) /\ UNCHANGED <<ctxDone, reqVars, cVars, sVars>>
  \/ \E n \in Chans : OpenChannel_confirmed(n) /\ UNCHANGED <<ctxDone, reqVars, cVars, sVars>>
  \/ \E n \in Chans : handleChannel_accept(n) /\ UNCHANGED <<ctxDone, sVars>>
  \/ \E n \in Chans : bicopy_returnsNil(n) /\ UNCHANGED <<ctxDone, reqVars, cVars, sVars>>
  \/ \E n \in Chans : handleChannel_returnsNil(n) /\ UNCHANGED <<ctxDone, reqVars, cVars, sVars>>
  \/ \E ch \in ChNames : PeerEOF(MaxChans, ch) /\ UNCHANGED <<ctxDone, hVars, sVars>>
  \/ \E ch \in ChNames : PeerCloses(MaxChans, ch) /\ UNCHANGED <<ctxDone, hVars, sVars>>
  \/ \E n \in Chans, w \in ChNames, k \in Kinds :
       ioCopy_read(n, w, k) /\ UNCHANGED <<ctxDone, reqVars, hVars, sVars>>
  \/ \E n \in Chans, w \in ChNames, k \in Kinds :
       ioCopy_readEOF(n, w, k) /\ UNCHANGED <<ctxDone, reqVars, hVars, sVars>>
  \/ \E n \in Chans, w \in ChNames, k \in Kinds :
       ioCopy_write(n, w, k) /\ UNCHANGED <<ctxDone, reqVars, hVars, sVars>>
  \/ \E n \in Chans, w \in ChNames :
       copyChannels_closeWrite(n, w) /\ UNCHANGED <<ctxDone, reqVars, hVars, sVars>>
  \/ \E n \in Chans : PeerRequestArrives(<<n, "destReqs">>) /\ UNCHANGED <<ctxDone, hVars, cVars, sVars>>
  \/ \E n \in Chans : PeerRequestArrives(<<n, "originRequests">>) /\ UNCHANGED <<ctxDone, hVars, cVars, sVars>>
  \/ \E s \in ChannelStreams : processRequests_next(s) /\ UNCHANGED <<ctxDone, hVars, cVars, sVars>>
  \/ \E s \in ChannelStreams : SendRequest_accepted(s) /\ UNCHANGED <<ctxDone, hVars, cVars, sVars>>
  \/ \E s \in ChannelStreams : handleRequest_replied(s) /\ UNCHANGED <<ctxDone, hVars, cVars, sVars>>
  \/ \E s \in ChannelStreams : processRequests_exit(s) /\ UNCHANGED <<ctxDone, hVars, cVars, sVars>>

SpecPairs == InitPairs /\ [][NextPairs]_vars

(* ------------------------------- claims ------------------------------- *)
IsPrefix(a, b) == Len(a) <= Len(b) /\ a = SubSeq(b, 1, Len(a))

\* C1: a handler invokes at most one of Accept and Reject on its notification,
\* and exactly one once it has returned: Reject if and only if the mirror
\* OpenChannel failed, Accept if and only if it succeeded; Accept is never
\* invoked unless OpenChannel has returned success.
C1_ExactlyOneOfAcceptReject ==
  \A n \in Chans :
    /\ acceptN[n] + Len(rejectLog[n]) <= 1
    /\ acceptN[n] > 0 => openRes[n].kind = "ok"
    /\ Len(rejectLog[n]) > 0 => openRes[n].kind \in {"typed", "other"}
    /\ hpc[n] = "returned" =>
         /\ acceptN[n] + Len(rejectLog[n]) = 1
         /\ Len(rejectLog[n]) = 1 <=> openRes[n].kind # "ok"
         /\ acceptN[n] = 1 <=> openRes[n].kind = "ok"

\* C1 witness: a handler that accepted its channel has returned on cancellation
C1_Witness ==
  \E n \in Chans : hpc[n] = "returned" /\ acceptN[n] = 1 /\ ctxDone /\ rejectLog[n] = <<>>

\* C2: after a failed OpenChannel the notification is rejected with the typed
\* error's reason and message, or with ConnectionFailed and the error string;
\* the handler returns "open channel: <cause>" and never accepts.
C2_RejectFidelity ==
  \A n \in Chans :
    (hpc[n] = "returned" /\ openRes[n].kind \in {"typed", "other"}) =>
      /\ Len(rejectLog[n]) = 1
      /\ acceptN[n] = 0
      /\ openRes[n].kind = "typed" =>
            /\ rejectLog[n][1].reason = openRes[n].reason
            /\ rejectLog[n][1].message = openRes[n].message
            /\ hret[n] = <<"open channel", "ssh: rejected", openRes[n].reason, openRes[n].message>>
      /\ openRes[n].kind = "other" =>
            /\ rejectLog[n][1].reason = "ConnectionFailed"
            /\ rejectLog[n][1].message = openRes[n].message
            /\ hret[n] = <<"open channel", openRes[n].message>>

\* C2 witness: a typed refusal has been passed on
C2_Witness ==
  \E n \in Chans :
    /\ hpc[n] = "returned"
    /\ openRes[n].kind = "typed"
    /\ rejectLog[n] = <<[reason |-> "Prohibited", message |-> "denied"]>>

C5_NoHangOnOriginInput ==
  \A n \in Chans :
    (acceptN[n] = 1 /\ hpc[n] # "returned" /\ Ended(n, "destCh"))
      ~> (hpc[n] = "returned" /\ closeLog[n] = <<"originCh", "destCh">>)

\* C5 witness: the handler has returned nil and closed both channels while the
\* origin has sent neither EOF nor a close, its request stream is open and the
\* copy of its input is still blocked in Read
C5_Witness ==
  \E n \in Chans :
    /\ hpc[n] = "returned" /\ hret[n] = Nil /\ ~ctxDone
    /\ closeLog[n] = <<"originCh", "destCh">>
    /\ chState[n]["originCh"] = "open"
    /\ ~reqClosed[<<n, "originRequests">>]
    /\ rpc[<<n, "originRequests">>] = "range"
    /\ cpc[n][<<"destCh", "primary">>] = "read"

\* C6 as stated: at the moment the handler closes the pair, without
\* cancellation and without a transport failure, in each direction the bytes
\* written downstream equal the bytes read upstream.
C6_Original ==
  [][\A n \in Chans :
       (hpc[n] # "returned" /\ hpc'[n] = "returned" /\ acceptN[n] = 1
          /\ ~ctxDone' /\ Faults' = 0)
       => \A w \in ChNames :
            written'[n][<<w, "primary">>] = readLog'[n][<<Other(w), "primary">>]]_vars

\* C6 amended: in each direction the bytes written downstream are always a
\* prefix of the bytes read upstream; when the handler has returned nil and the
\* copy into the inbound channel ended without a write error, the bytes written
\* to the inbound channel's primary stream are exactly the bytes the peer of
\* the mirror channel wrote before its EOF.
C6_NoLossIntoInbound ==
  \A n \in Chans :
    /\ \A w \in ChNames, k \in Kinds :
         IsPrefix(written[n][<<w, k>>], readLog[n][<<Other(w), k>>])
    /\ (hpc[n] = "returned" /\ hret[n] = Nil /\ copyErrs[n][<<"originCh", "primary">>] = Nil) =>
         /\ written[n][<<"originCh", "primary">>] = readLog[n][<<"destCh", "primary">>]
         /\ inflight[n][<<"destCh", "primary">>] = <<>>
         /\ cbuf[n][<<"originCh", "primary">>] = <<>>

\* C6 witness: the handler has returned nil after two bytes of the mirror
\* channel's primary stream were written, in order, to the inbound channel
C6_Witness ==
  \E n \in Chans :
    /\ hpc[n] = "returned" /\ hret[n] = Nil
    /\ copyErrs[n][<<"originCh", "primary">>] = Nil
    /\ written[n][<<"originCh", "primary">>] = <<201, 202>>

\* the positions of event ev in a relay's event log
EvPos(s, ev) == {i \in 1..Len(evLog[s]) : evLog[s][i] = ev}
\* the Reply invocations on the request with identity id
RepliesTo(s, id) == {i \in 1..Len(replyLog[s]) : replyLog[s][i].id = id}
\* handleRequest has returned for the request with identity id
Handled(s, id) == EvPos(s, <<"ret", id>>) # {} /\ rcur[s].id # id

\* C3: for every request handled by handleRequest, Reply is invoked exactly
\* once when the request wants a reply and never when it does not, and only
\* after the destination's SendRequest has returned.
C3_ReplyCountAndOrder ==
  \A s \in Streams : \A id \in 1..Len(reqSeen[s]) :
    /\ Cardinality(RepliesTo(s, id)) <= 1
    /\ ~reqSeen[s][id].wantReply => RepliesTo(s, id) = {}
    /\ Handled(s, id) =>
         Cardinality(RepliesTo(s, id)) = (IF reqSeen[s][id].wantReply THEN 1 ELSE 0)
    /\ Cardinality(EvPos(s, <<"reply", id>>)) = Cardinality(RepliesTo(s, id))
    /\ \A i \in EvPos(s, <<"reply", id>>) :
         \E j \in EvPos(s, <<"ret", id>>) : j < i

\* C3 witness: a relay has handled a request that wanted a reply and then one
\* that wanted none, with one Reply in all
C3_Witness ==
  \E s \in Streams :
    /\ Len(reqSeen[s]) = 2 /\ Handled(s, 1) /\ Handled(s, 2)
    /\ reqSeen[s][1].wantReply /\ ~reqSeen[s][2].wantReply
    /\ Len(replyLog[s]) = 1
    /\ rerr[s] = Nil

\* C10: one request stream is relayed serially and in arrival order: the n-th
\* SendRequest carries the n-th request that arrived, and it is not invoked
\* before SendRequest has returned for the previous request and, when that
\* one wanted a reply, its Reply has been invoked.
C10_SerialInOrder ==
  \A s \in Streams :
    /\ Len(sendLog[s]) <= Len(reqSeen[s])
    /\ \A k \in 1..Len(sendLog[s]) : sendLog[s][k] = SendRequestArgs(reqSeen[s][k])
    /\ \A id \in 1..Len(reqSeen[s]) : Cardinality(EvPos(s, <<"send", id>>)) <= 1
    /\ \A id \in 2..Len(reqSeen[s]) : \A i \in EvPos(s, <<"send", id>>) :
         /\ \E j \in EvPos(s, <<"send", id - 1>>) : j < i
         /\ \E j \in EvPos(s, <<"ret", id - 1>>) : j < i
         /\ reqSeen[s][id - 1].wantReply =>
              \E j \in EvPos(s, <<"reply", id - 1>>) : j < i

\* C10 witness: the second request arrived while the first was being sent, and
\* was sent after the first had been answered
C10_Witness ==
  \E s \in Streams :
    /\ Len(sendLog[s]) = 2
    /\ reqSeen[s][1].wantReply
    /\ reqSeen[s][1].name # reqSeen[s][2].name
    /\ evLog[s] = <<<<"send", 1>>, <<"ret", 1>>, <<"reply", 1>>, <<"send", 2>>>>

\* C7: from its select (after the dial and the handshake succeeded) Serve
\* returns only with the context cancelled, returning the cancellation error
\* unchanged, or with the origin connection's Wait completed and its outcome
\* delivered by the watcher, returning exactly that outcome; the value is a
\* non-nil error. No other event (a relay loop ending, a handler or a request
\* forward failing) makes it return.
C7_ServeReturnsWaitOrCtx ==
  [][(spc = "select" /\ spc' = "returned") =>
       /\ \/ ctxDone /\ sret' = context_Canceled
          \/ /\ wpc = "sent" /\ conn["origin"] = "down"
             /\ sret' = connErr["origin"]
       /\ sret' # Nil]_vars

\* C7 witness: Serve has returned the outcome of the origin's Wait, a transport
\* failure, after a channel handler had failed and a new-channel loop had ended
C7_Witness ==
  /\ spc = "returned" /\ sway = "wait" /\ sret = errTransport
  /\ \E n \in Chans : hpc[n] = "returned" /\ hret[n] # Nil
  /\ lpc["target"] = "done"

\* C8: once the context is cancelled with Serve in its select, Serve eventually
\* returns; and whenever it returns while the origin connection has not
\* terminated, it returns the cancellation error.
C8_CancelReturns ==
  /\ (ctxDone /\ spc = "select") ~> (spc = "returned")
  /\ [][(spc = "select" /\ spc' = "returned" /\ conn["origin"] = "up")
          => sret' = context_Canceled]_vars

\* C8 witness: Serve has returned the cancellation error with the origin
\* connected, while a handler is still blocked in OpenChannel
C8_Witness ==
  /\ spc = "returned" /\ sret = context_Canceled /\ sway = "ctx"
  /\ conn["origin"] = "up" /\ wpc = "wait"
  /\ \E n \in Chans : hpc[n] = "open"

\* the new-channel loop over connection c has invoked Close on the other one
LoopClosed(c) ==
  \E i \in 1..Len(connCloseLog) : connCloseLog[i] = [loop |-> c, conn |-> OtherConn(c)]

\* C9: when the target connection has ended while Serve forwards, the loop over
\* the target's new channels closes the origin connection, the origin's Wait
\* then completes and Serve returns; when the origin connection has ended, the
\* loop over its new channels closes the target connection; a loop invokes
\* Close only once its own stream of new channels is closed.
C9_TerminationShutsDown ==
  /\ (spc = "select" /\ conn["target"] = "down") ~> LoopClosed("target")
  /\ LoopClosed("target") ~> (wpc = "sent")
  /\ (spc = "select" /\ conn["target"] = "down") ~> (spc = "returned")
  /\ (lpc["origin"] = "range" /\ conn["origin"] = "down") ~> LoopClosed("origin")
  /\ [](\A i \in 1..Len(connCloseLog) :
          /\ conn[connCloseLog[i].loop] = "down"
          /\ connCloseLog[i].conn = OtherConn(connCloseLog[i].loop))
  /\ [][\A c \in Conns : (lpc[c] = "range" /\ lpc'[c] = "done") =>
          (conn[c] = "down" /\ chanQ[c] = <<>>)]_vars

\* C9 witness: the target disconnected with the context live, its loop closed
\* the origin connection, and Serve returned the outcome of the origin's Wait
C9_Witness ==
  /\ connErr["target"] = io_EOF
  /\ connCloseLog = <<[loop |-> "target", conn |-> "origin"]>>
  /\ connErr["origin"] = errClosed
  /\ spc = "returned" /\ sway = "wait" /\ sret = errClosed

\* what the destination returned for the request with identity id
RetOf(s, id) == retLog[s][CHOOSE i \in 1..Len(retLog[s]) : retLog[s][i].id = id]

\* C11: every reply to a global request carries the ok and the payload the
\* destination connection's SendRequest returned for that request (a refusal
\* is passed on as ok = false with an empty payload, and handleRequest
\* returns no error for it); every reply to a channel request carries the
\* ok the destination channel returned and an empty payload.
C11_ReplyFidelity ==
  \A s \in Streams : \A i \in 1..Len(replyLog[s]) :
    LET rep == replyLog[s][i] IN
      /\ \E j \in 1..Len(retLog[s]) : retLog[s][j].id = rep.id
      /\ rep.ok = RetOf(s, rep.id).ok
      /\ IF s \in GlobalStreams
         THEN rep.payload = RetOf(s, rep.id).payload
         ELSE rep.payload = <<>>
      /\ (RetOf(s, rep.id).err # Nil) => (~rep.ok /\ rep.payload = <<>>)

\* C11 witness: on a global stream the destination answered the first request
\* with ok and a payload and refused the second without an error; both
\* answers were passed on and handleRequest returned nil
C11_Witness ==
  \E s \in GlobalStreams :
    /\ Len(retLog[s]) = 2
    /\ retLog[s][2].err = Nil
    /\ replyLog[s] = <<[id |-> 1, ok |-> TRUE, payload |-> <<7>>],
                       [id |-> 2, ok |-> FALSE, payload |-> <<>>]>>
    /\ rerr[s] = Nil

\* C12: the requests a relay has dequeued have each been forwarded exactly
\* once, in order, whatever their name, and each forwarded request carries
\* the name, the want-reply flag and the payload of the received one.
C12_OpaqueForwarding ==
  \A s \in Streams :
    /\ Len(sendLog[s]) = Len(reqSeen[s]) - Len(reqQ[s])
    /\ \A k \in 1..Len(sendLog[s]) :
         /\ sendLog[s][k].name = reqSeen[s][k].name
         /\ sendLog[s][k].wantReply = reqSeen[s][k].wantReply
         /\ sendLog[s][k].payload = reqSeen[s][k].payload

\* C12 witness: an x11-req that wants no reply and an exec with its payload
\* that wants one have both been forwarded
C12_Witness ==
  \E s \in Streams :
    sendLog[s] = <<[name |-> "x11-req", wantReply |-> FALSE, payload |-> <<>>],
                   [name |-> "exec", wantReply |-> TRUE, payload |-> <<7>>]>>

\* C13: a handler invokes OpenChannel at most once, exactly once after it
\* has passed that call, on the target for a notification from the origin
\* and on the origin for one from the target, with the notification's
\* channel type and extra data; global requests from the origin are sent
\* only to the target and those from the target only to the origin.
C13_Mirroring ==
  /\ \A n \in Chans :
       /\ Len(openLog[n]) <= 1
       /\ hpc[n] \notin {"off", "start"} => Len(openLog[n]) = 1
       /\ \A i \in 1..Len(openLog[n]) :
            /\ notif[n].from = "origin" => openLog[n][i].conn = "target"
            /\ notif[n].from = "target" => openLog[n][i].conn = "origin"
            /\ openLog[n][i].chanType = notif[n].chanType
            /\ openLog[n][i].extraData = notif[n].extraData
  /\ Len(sendTo[<<0, "serverReqs">>]) = Len(sendLog[<<0, "serverReqs">>])
  /\ Len(sendTo[<<0, "destReqs">>]) = Len(sendLog[<<0, "destReqs">>])
  /\ \A i \in 1..Len(sendTo[<<0, "serverReqs">>]) : sendTo[<<0, "serverReqs">>][i] = "target"
  /\ \A i \in 1..Len(sendTo[<<0, "destReqs">>]) : sendTo[<<0, "destReqs">>][i] = "origin"

\* C13 witness: a forwarded-tcpip channel opened by the target was mirrored
\* by one OpenChannel on the origin connection, which the origin refused;
\* the handler has returned without a second attempt
C13_Witness ==
  \E n \in Chans :
    /\ notif[n] = [from |-> "target", chanType |-> "forwarded-tcpip", extraData |-> <<9>>]
    /\ openLog[n] = <<[conn |-> "origin", chanType |-> "forwarded-tcpip", extraData |-> <<9>>]>>
    /\ openRes[n].kind = "typed"
    /\ hpc[n] = "returned"

\* C14: the bytes written to a stream of a channel are, in order and without
\* repetition, the first bytes the peer wrote on the same stream (primary or
\* extended) of the other channel of the pair, and nothing else; and a
\* copier that has bytes to read or to write can take its step whatever the
\* copier of the other stream is doing.
C14_StreamSeparation ==
  \A n \in Chans : \A w \in ChNames : \A k \in Kinds :
    /\ \A i \in 1..Len(written[n][<<w, k>>]) :
         written[n][<<w, k>>][i] = Byte(<<Other(w), k>>, i)
    /\ (cpc[n][<<w, k>>] = "read" /\ inflight[n][<<Other(w), k>>] # <<>>) =>
         ENABLED (ioCopy_read(n, w, k) /\ UNCHANGED <<ctxDone, reqVars, hVars, sVars>>)
    /\ (cpc[n][<<w, k>>] = "write") =>
         ENABLED (ioCopy_write(n, w, k) /\ UNCHANGED <<ctxDone, reqVars, hVars, sVars>>)

\* C14 witness: the two bytes the target wrote on the extended stream have
\* reached the origin's extended stream, and only it, while the copier of the
\* primary stream of the same direction is blocked in Read on an open source
C14_Witness ==
  \E n \in Chans :
    /\ written[n][<<"originCh", "stderr">>] = <<251, 252>>
    /\ written[n][<<"originCh", "primary">>] = <<>>
    /\ cpc[n][<<"originCh", "primary">>] = "read"
    /\ chState[n]["destCh"] = "open"

\* the number of CloseWrite invocations on channel w of pair n
CloseWrites(n, w) ==
  Cardinality({i \in 1..Len(closeWriteLog[n]) : closeWriteLog[n][i] = w})

\* C15: for each copier of a pair (into either channel, primary or extended
\* stream), once its source channel has reached EOF (the peer sent EOF or
\* the channel ended) while the copier runs, CloseWrite is eventually
\* invoked on the copier's destination channel.
C15_HalfClosePropagation ==
  \A n \in Chans : \A w \in ChNames :
    ((\E k \in Kinds : cpc[n][<<w, k>>] \in {"read", "write"})
       /\ chState[n][Other(w)] # "open")
      ~> (CloseWrites(n, w) > 0)

\* C15 witness: the origin sent EOF after one byte; the byte was written to
\* the target, CloseWrite was invoked on the target channel, and the copies
\* into the origin channel are still running
C15_Witness ==
  \E n \in Chans :
    /\ chState[n]["originCh"] = "eof"
    /\ written[n][<<"destCh", "primary">>] = <<101>>
    /\ closeWriteLog[n] = <<"destCh">>
    /\ cwpc[n]["originCh"] = "copy"
    /\ hpc[n] = "bicopy"

\* C16: CloseWrite is invoked at most once on each channel of a pair, and
\* only when both copies into that channel have exited with nothing read
\* and not written; a copy that exited without an error has written every
\* byte read from its source and has drained the source. Once both copies
\* into a channel have exited, with or without an error, CloseWrite is
\* eventually invoked on it.
C16_HalfCloseOrdering ==
  /\ [](\A n \in Chans : \A w \in ChNames :
          /\ CloseWrites(n, w) <= 1
          /\ CloseWrites(n, w) = 1 =>
               \A k \in Kinds :
                 /\ cpc[n][<<w, k>>] = "done"
                 /\ cbuf[n][<<w, k>>] = <<>>
                 /\ copyErrs[n][<<w, k>>] = Nil =>
                      /\ written[n][<<w, k>>] = readLog[n][<<Other(w), k>>]
                      /\ inflight[n][<<Other(w), k>>] = <<>>)
  /\ \A n \in Chans : \A w \in ChNames :
       (cwpc[n][w] = "copy" /\ \A k \in Kinds : cpc[n][<<w, k>>] = "done")
         ~> (CloseWrites(n, w) = 1)

\* C16 witness: the primary copy into the target channel exited with a
\* transport error, the extended copy wrote its byte and read EOF, and
\* CloseWrite was invoked once on the target channel
C16_Witness ==
  \E n \in Chans :
    /\ copyErrs[n][<<"destCh", "primary">>] = errTransport
    /\ copyErrs[n][<<"destCh", "stderr">>] = Nil
    /\ written[n][<<"destCh", "stderr">>] = <<151>>
    /\ CloseWrites(n, "destCh") = 1

C18_ParallelHandlers ==
  \A c \in Conns :
    (lpc[c] = "range" /\ chanQ[c] # <<>> /\ FreeChans # {}) =>
      ENABLED (processChannels_next(c) /\ UNCHANGED <<ctxDone, reqVars, cVars>>)

\* C18 witness: the first handler is still blocked in OpenChannel while the
\* second channel was opened, carried the target's byte to the origin, was
\* closed on both sides, and its handler has returned nil
C18_Witness ==
  /\ hpc[1] = "open"
  /\ hpc[2] = "returned"
  /\ hret[2] = Nil
  /\ written[2][<<"originCh", "primary">>] = <<201>>
  /\ closeLog[2] = <<"originCh", "destCh">>

\* C19: once the dial of the target has failed, Serve has returned the dial
\* error wrapped as "dial reverse proxy target: <cause>" and has done nothing
\* else, then or later: it ran no deferred call but cancel, attempted no
\* handshake (there is no target connection), started neither the watcher nor
\* a loop nor a relay nor a handler, stays returned (no second dial), and has
\* neither read nor closed the origin connection and its two streams, whose
\* notifications and requests stay queued.
C19_DialFailure ==
  sway = "dial" =>
    /\ spc = "returned"
    /\ sret = <<"dial reverse proxy target">> \o errDial
    /\ errDial # Nil
    /\ deferLog = <<"cancel">>
    /\ conn["target"] = "none" /\ connErr["target"] = Nil
    /\ wpc = "off" /\ shutdownErr = <<>>
    /\ \A c \in Conns : lpc[c] = "off" /\ chanQ[c] = <<>>
    /\ \A s \in GlobalStreams :
         rpc[s] = "off" /\ sendLog[s] = <<>> /\ replyLog[s] = <<>> /\ reqQ[s] = reqSeen[s]
    /\ \A n \in Chans : hpc[n] = "off" /\ openLog[n] = <<>>
    /\ connCloseLog = <<>>
    /\ connErr["origin"] # errClosed

\* C19 witness: the dial failed and Serve returned; the origin, still
\* connected, has sent a request on its global stream, which stays unread
C19_Witness ==
  /\ sway = "dial" /\ spc = "returned"
  /\ conn["origin"] = "up"
  /\ Len(reqQ[<<0, "serverReqs">>]) = 1

\* C20: once the handshake with the target has failed, Serve has returned
\* the error wrapped as "new ssh client conn: <cause>" after closing the
\* dialed socket, has started neither the watcher nor a loop nor a relay nor
\* a handler, and has neither read nor closed the origin connection; the
\* dispatcher, once it has returned, has closed the origin's socket. On every
\* return of Serve after a successful dial, the first deferred call run was
\* the close of the target socket, and the target connection is not live.
C20_HandshakeFailure ==
  /\ sway = "handshake" =>
       /\ spc \in {"returned", "handled"}
       /\ sret = <<"new ssh client conn">> \o errHandshake
       /\ errHandshake # Nil
       /\ IsPrefix(<<"targetConn.Close", "cancel">>, deferLog)
       /\ wpc = "off" /\ shutdownErr = <<>>
       /\ \A c \in Conns : lpc[c] = "off" /\ chanQ[c] = <<>>
       /\ \A s \in GlobalStreams :
            rpc[s] = "off" /\ sendLog[s] = <<>> /\ replyLog[s] = <<>> /\ reqQ[s] = reqSeen[s]
       /\ \A n \in Chans : hpc[n] = "off" /\ openLog[n] = <<>>
       /\ connCloseLog = <<>>
       /\ spc = "returned" => connErr["origin"] # errClosed
  /\ spc = "handled" =>
       /\ deferLog[Len(deferLog)] = "conn.Close"
       /\ conn["origin"] = "down"
  /\ (spc \in {"returned", "handled"} /\ sway \in {"handshake", "ctx", "wait"}) =>
       /\ deferLog # <<>> /\ deferLog[1] = "targetConn.Close"
       /\ conn["target"] # "up"

\* C20 witness: the handshake failed, Serve returned after closing the dialed
\* socket, and the dispatcher then closed the socket of the origin, which
\* was still connected
C20_Witness ==
  /\ sway = "handshake" /\ spc = "handled"
  /\ deferLog = <<"targetConn.Close", "cancel", "handle.cancel", "conn.Close">>
  /\ connErr["origin"] = errClosed

\* the number of entries x of a log
Count(log, x) == Cardinality({i \in 1..Len(log) : log[i] = x})

\* C21: for an accepted connection, Route is invoked at most once, never
\* when the server handshake failed and exactly once when it succeeded and
\* handle has gone past the routing; the invocation comes after the server
\* handshake and before every dial; after a failed Route no dial is made
\* and Serve is not invoked.
C21_RouteOnce ==
  /\ Count(callLog, "Route") <= 1
  /\ Count(callLog, "NewServerConn") <= 1
  /\ sway = "shake" => Count(callLog, "Route") = 0
  /\ (spc \notin {"shake", "route"} /\ sway # "shake") => Count(callLog, "Route") = 1
  /\ \A i \in 1..Len(callLog) :
       /\ callLog[i] = "Route" => \E j \in 1..(i - 1) : callLog[j] = "NewServerConn"
       /\ callLog[i] \in {"DialTimeout", "Serve"} =>
            \E j \in 1..(i - 1) : callLog[j] = "Route"
  /\ Count(callLog, "Route failed") > 0 =>
       /\ Count(callLog, "DialTimeout") = 0
       /\ Count(callLog, "Serve") = 0
       /\ spc = "handled" /\ sret = errRoute

\* C21 witness: the server handshake succeeded and Route was invoked once and
\* failed; handle has returned the route error without a dial
C21_Witness ==
  /\ spc = "handled" /\ sway = "route"
  /\ callLog = <<"NewServerConn", "Route", "Route failed">>
  /\ sret = errRoute


\* C22: when the per-connection task has ended, by whichever path (server
\* handshake failure, route failure, dial failure, client handshake failure,
\* or Serve's return from its select), the origin's socket has been closed
\* by handle, once and as the last of its deferred calls, after the cancel
\* of the per-connection context; the origin connection is not live and the
\* context is cancelled.
C22_OriginClosedOnExit ==
  spc = "handled" =>
    /\ sway \in {"shake", "route", "dial", "handshake", "ctx", "wait"}
    /\ Len(deferLog) >= 2
    /\ SubSeq(deferLog, Len(deferLog) - 1, Len(deferLog)) = <<"handle.cancel", "conn.Close">>
    /\ Count(deferLog, "conn.Close") = 1
    /\ Count(deferLog, "handle.cancel") = 1
    /\ conn["origin"] = "down"
    /\ ctxDone

\* C22 witness: the server handshake failed with the origin connected; handle
\* has returned the error and its deferred calls have cancelled the context
\* and closed the socket
C22_Witness ==
  /\ spc = "handled" /\ sway = "shake" /\ sret = errServerHandshake
  /\ deferLog = <<"handle.cancel", "conn.Close">>
  /\ connErr["origin"] = errClosed

\* C23: the listener is closed only when the context given to ServeProxy is
\* cancelled; once that context is cancelled ServeProxy eventually returns;
\* once listening has started it returns only the listener-closed error and
\* only after the cancellation; and every connection whose Serve is in its
\* select when the context is cancelled eventually has its Serve return.
C23_Original ==
  /\ [][(listener = "open" /\ listener' = "closed") => outerDone]_vars
  /\ outerDone ~> (ppc = "returned")
  /\ [](ppc = "returned" /\ listener # "none" =>
          outerDone /\ errors_Is(pret, net_ErrClosed))
  /\ \A i \in Tasks : (outerDone /\ tpc[i] = "serve") ~> (tpc[i] = "done")

\* C24: when Accept has failed with an error other than listener-closed, the
\* error has been given to the logger and the process goes on: ServeProxy
\* keeps accepting and no goroutine ends the process.
C24_Original ==
  (\E i \in Tasks : tpc[i] = "handleNil") =>
    /\ \E j \in 1..Len(plog) : plog[j] = Wrap("accept tcp", errAccept)
    /\ ppc = "accept"

\* C25: no error given to the logger by the goroutine of a connection is EOF
\* or a context cancellation, wrapped or not, and every other error handle
\* has returned was given to the logger.
C25_Original ==
  /\ \A j \in 1..Len(plog) :
       ~errors_Is(plog[j], io_EOF) /\ ~errors_Is(plog[j], context_Canceled)
  /\ (spc = "handled" /\ ~errors_Is(sret, io_EOF) /\ ~errors_Is(sret, context_Canceled)) =>
       plog = <<sret>>

\* C26: a handler that has accepted its inbound channel has returned nil only
\* with bicopy returned nil and the relay of the destination channel's
\* request stream (T_inbound) ended, the stream closed and drained and every
\* request of it forwarded; any other return is the cancellation error, with
\* the context cancelled, and that return is open to the handler whenever
\* the context is cancelled while it waits in bicopy or in its select; the
\* nil return is open as soon as T_inbound has ended after bicopy, whatever
\* the relay of the inbound channel's requests (T_outbound) is doing.
C26_HandlerReturnCondition ==
  \A n \in Chans :
    /\ (hpc[n] = "returned" /\ Accepted(n) /\ hret[n] = Nil) =>
         /\ bicopyRet[n] = "nil"
         /\ rpc[<<n, "destReqs">>] = "done"
         /\ reqClosed[<<n, "destReqs">>]
         /\ reqQ[<<n, "destReqs">>] = <<>>
         /\ Len(sendLog[<<n, "destReqs">>]) = Len(reqSeen[<<n, "destReqs">>])
    /\ (hpc[n] = "returned" /\ Accepted(n) /\ hret[n] # Nil) =>
         ctxDone /\ errors_Is(hret[n], context_Canceled)
    /\ (hpc[n] = "bicopy" /\ ctxDone) =>
         ENABLED (bicopy_returnsErr(n) /\ UNCHANGED <<ctxDone, reqVars, cVars, sVars>>)
    /\ (hpc[n] = "select" /\ ctxDone) =>
         ENABLED (handleChannel_returnsErr(n) /\ UNCHANGED <<ctxDone, reqVars, cVars, sVars>>)
    /\ (hpc[n] = "select" /\ rpc[<<n, "destReqs">>] = "done") =>
         ENABLED (handleChannel_returnsNil(n) /\ UNCHANGED <<ctxDone, reqVars, cVars, sVars>>)

\* C26 witness: the handler has returned nil after the relay of the
\* destination channel's requests forwarded a request and ended, while the
\* relay of the inbound channel's requests is still at its range statement
C26_Witness ==
  \E n \in Chans :
    /\ hpc[n] = "returned" /\ hret[n] = Nil /\ Accepted(n)
    /\ Len(sendLog[<<n, "destReqs">>]) = 1
    /\ rpc[<<n, "originRequests">>] = "range"
    /\ ~reqClosed[<<n, "originRequests">>]

\* the bytes the peer of channel ch has written on its stream k
PeerWrote(n, ch, k) == readLog[n][<<ch, k>>] \o inflight[n][<<ch, k>>]

\* every request that arrived on the request stream of the destination
\* channel has been given to SendRequest of the inbound channel, in order
ChannelRequestsForwarded(n) ==
  /\ Len(sendLog[<<n, "destReqs">>]) = Len(reqSeen[<<n, "destReqs">>])
  /\ \A i \in 1..Len(reqSeen[<<n, "destReqs">>]) :
       /\ sendLog[<<n, "destReqs">>][i].name = reqSeen[<<n, "destReqs">>][i].name
       /\ sendLog[<<n, "destReqs">>][i].payload = reqSeen[<<n, "destReqs">>][i].payload
  /\ \A i \in 1..Len(sendTo[<<n, "destReqs">>]) : sendTo[<<n, "destReqs">>][i] = <<n, "originCh">>

\* C27 as stated: when the handler has closed the inbound channel without a
\* cancellation, every request that arrived on the destination channel's
\* request stream has been forwarded to the inbound channel and every byte
\* the target wrote has been written to the inbound channel.
C27_Original ==
  \A n \in Chans :
    (hpc[n] = "returned" /\ InSeq("originCh", closeLog[n]) /\ ~ctxDone) =>
      /\ ChannelRequestsForwarded(n)
      /\ \A k \in Kinds : written[n][<<"originCh", k>>] = PeerWrote(n, "destCh", k)

\* C27 amended: when the handler has closed the inbound channel without a
\* cancellation, every request that arrived on the destination channel's
\* request stream has been forwarded to the inbound channel, and on each
\* stream whose copy into the inbound channel ended without a write error
\* every byte the target wrote has been written to the inbound channel.
C27_ExitStatusBeforeClose ==
  \A n \in Chans :
    (hpc[n] = "returned" /\ InSeq("originCh", closeLog[n]) /\ ~ctxDone) =>
      /\ ChannelRequestsForwarded(n)
      /\ \A k \in Kinds :
           copyErrs[n][<<"originCh", k>>] = Nil =>
             written[n][<<"originCh", k>>] = PeerWrote(n, "destCh", k)

\* C27 witness: without a cancellation the handler has closed the inbound
\* channel after the request of the target's channel was forwarded to the
\* inbound channel and the byte the target wrote was written to it
C27_Witness ==
  \E n \in Chans :
    /\ hpc[n] = "returned" /\ InSeq("originCh", closeLog[n]) /\ ~ctxDone
    /\ Len(reqSeen[<<n, "destReqs">>]) = 1
    /\ Len(sendLog[<<n, "destReqs">>]) = 1
    /\ written[n][<<"originCh", "primary">>] = <<201>>
    /\ PeerWrote(n, "destCh", "primary") = <<201>>

\* C28: the handler closes no channel before it returns; when it has
\* returned because the mirror could not be opened it has closed none; when
\* it has returned because Accept failed it has closed the mirror channel,
\* once, and returned "accept new channel: <cause>"; on every return after
\* both channels exist (bicopy cancelled, T_inbound done, context cancelled)
\* it has closed the inbound channel, then the mirror channel, each once.
C28_HandlesReleased ==
  \A n \in Chans :
    /\ hpc[n] # "returned" => closeLog[n] = <<>>
    /\ (hpc[n] = "returned" /\ openRes[n].kind # "ok") => closeLog[n] = <<>>
    /\ (hpc[n] = "returned" /\ openRes[n].kind = "ok" /\ ~Accepted(n)) =>
         /\ closeLog[n] = <<"destCh">>
         /\ hret[n] = Wrap("accept new channel", errTransport)
    /\ (hpc[n] = "returned" /\ Accepted(n)) =>
         /\ closeLog[n] = <<"originCh", "destCh">>
         /\ \/ bicopyRet[n] = "err" /\ hret[n] = Wrap("channel bidirectional copy", context_Canceled)
            \/ bicopyRet[n] = "nil" /\ hret[n] = Nil /\ rpc[<<n, "destReqs">>] = "done"
            \/ bicopyRet[n] = "nil" /\ hret[n] = context_Canceled /\ ctxDone

\* C28 witness: the handler has returned from a cancelled bicopy while all
\* four copies were running, and has closed the inbound channel, then the
\* mirror channel
C28_Witness ==
  \E n \in Chans :
    /\ hpc[n] = "returned" /\ bicopyRet[n] = "err"
    /\ \A e \in Ends : cpc[n][e] \in {"read", "write"}
    /\ closeLog[n] = <<"originCh", "destCh">>

\* the background sub-tasks of the handler of pair n have all terminated:
\* the two request relays and the four copies
SubTasksTerminated(n) ==
  /\ rpc[<<n, "destReqs">>] = "done"
  /\ rpc[<<n, "originRequests">>] = "done"
  /\ \A e \in Ends : cpc[n][e] = "done"

TornDown ==
  /\ \A c \in Conns : lpc[c] = "done" /\ conn[c] = "down"
  /\ \A s \in GlobalStreams : rpc[s] = "done"
  /\ \A n \in Chans : hpc[n] \in {"off", "returned"}

\* C30: once Serve has returned from its select (the loops were started) the
\* derived context is cancelled and the target connection has ended; from
\* then on the session is eventually torn down, for good: the four top-level
\* loops have ended, every handler has returned and both connections have
\* ended, the origin connection closed by the loop over the target's new
\* channels unless it had ended before; and the loop over a connection's new
\* channels ends only after that connection ended.
C30_TeardownCascade ==
  /\ [](spc = "returned" /\ sway \in {"ctx", "wait"} =>
          ctxDone /\ conn["target"] = "down")
  /\ (spc = "returned" /\ sway \in {"ctx", "wait"}) ~> [](TornDown /\ LoopClosed("target"))
  /\ [](\A c \in Conns : lpc[c] = "done" => conn[c] = "down" /\ conn[OtherConn(c)] = "down")

\* C30 witness: Serve returned on a cancellation with the origin connected
\* (there is no dispatcher to close it); the loop over the target's new
\* channels closed the origin connection, and the session is torn down with
\* a handler that had been started returned
C30_Witness ==
  /\ spc = "returned" /\ sway = "ctx"
  /\ connErr["target"] = errClosed
  /\ connErr["origin"] = errClosed
  /\ LoopClosed("target")
  /\ TornDown
  /\ \E n \in Chans : hpc[n] = "returned"

\* C31 as stated: whenever handleRequest has returned for a request whose
\* SendRequest failed, it has returned "reply after send failure: <cause>" or
\* "send request: <cause>" with the send failure as cause; whenever it has
\* returned for a request whose SendRequest succeeded, it has returned nil or
\* "reply: <cause>" with the failure of Reply as cause.
C31_Original ==
  \A s \in Streams :
    rpc[s] \in {"range", "send", "done"} =>
      /\ rres[s].err # Nil =>
           rerr[s] \in {Wrap("reply after send failure", rres[s].err),
                        Wrap("send request", rres[s].err)}
      /\ (rres[s].err = Nil /\ retLog[s] # <<>>) =>
           rerr[s] \in {Nil, Wrap("reply", errTransport)}

\* C32: bicopy has returned an error only with the context cancelled, and the
\* error is the context's (the handler returns it wrapped); without a
\* cancellation bicopy returns nil whatever errors the copies ended with. A
\* copy that ends with an error changes neither the position of a copy of
\* the opposite direction nor that of bicopy, and a copy in Read with bytes
\* to read can go on whatever the errors of the other copies.
C32_CopyErrorsNotFatal ==
  /\ [](\A n \in Chans :
          /\ bicopyRet[n] = "err" =>
               /\ ctxDone
               /\ hret[n] = Wrap("channel bidirectional copy", context_Canceled)
          /\ (bicopyRet[n] # "none" /\ ~ctxDone) => bicopyRet[n] = "nil"
          /\ \A w \in ChNames, k \in Kinds :
               (cpc[n][<<w, k>>] = "read" /\ inflight[n][<<Other(w), k>>] # <<>>) =>
                 ENABLED (ioCopy_read(n, w, k) /\ UNCHANGED <<ctxDone, reqVars, hVars, sVars>>))
  /\ [][\A n \in Chans, w \in ChNames, k \in Kinds :
          copyErrs'[n][<<w, k>>] # copyErrs[n][<<w, k>>] =>
            /\ \A k2 \in Kinds : cpc'[n][<<Other(w), k2>>] = cpc[n][<<Other(w), k2>>]
            /\ cwpc'[n] = cwpc[n]
            /\ hpc'[n] = hpc[n] /\ bicopyRet'[n] = bicopyRet[n] /\ hret'[n] = hret[n]]_vars

\* C32 witness: the copy into the inbound channel's primary stream ended
\* with a transport failure, bicopy returned nil all the same, and a copy of
\* the opposite direction has written a byte to the mirror channel
C32_Witness ==
  \E n \in Chans :
    /\ copyErrs[n][<<"originCh", "primary">>] = errTransport
    /\ bicopyRet[n] = "nil"
    /\ Len(written[n][<<"destCh", "primary">>]) = 1

\* C33: while the relay of a stream is handling a request (blocked in
\* SendRequest, or replying) it takes no later request of that stream, and a
\* stream whose destination never answers has had one request forwarded at
\* most; whatever the other relays do, a relay at its range statement with a
\* request queued can take it, a new-channel loop with a notification queued
\* can start its handler, a handler can open and accept, and a copy can read
\* the bytes that arrived and write the bytes it read.
C33_BlockingConfined ==
  /\ \A s \in Streams :
       /\ rpc[s] \in {"send", "reply"} =>
            ~ENABLED (processRequests_next(s) /\ UNCHANGED <<ctxDone, hVars, cVars, sVars>>)
       /\ (rpc[s] = "range" /\ reqQ[s] # <<>>) =>
            ENABLED (processRequests_next(s) /\ UNCHANGED <<ctxDone, hVars, cVars, sVars>>)
       /\ s \in Unanswered => Len(sendLog[s]) <= 1
  /\ \A c \in Conns :
       (lpc[c] = "range" /\ chanQ[c] # <<>> /\ FreeChans # {}) =>
         ENABLED (processChannels_next(c) /\ UNCHANGED <<ctxDone, reqVars, cVars>>)
  /\ \A n \in Chans :
       /\ hpc[n] = "start" =>
            ENABLED (handleChannel_open(n) /\ UNCHANGED <<ctxDone, reqVars, cVars, sVars>>)
       /\ hpc[n] = "accept" =>
            ENABLED (handleChannel_accept(n) /\ UNCHANGED <<ctxDone, sVars>>)
       /\ \A w \in ChNames, k \in Kinds :
            /\ (cpc[n][<<w, k>>] = "read" /\ inflight[n][<<Other(w), k>>] # <<>>) =>
                 ENABLED (ioCopy_read(n, w, k) /\ UNCHANGED <<ctxDone, reqVars, hVars, sVars>>)
            /\ cpc[n][<<w, k>>] = "write" =>
                 ENABLED (ioCopy_write(n, w, k) /\ UNCHANGED <<ctxDone, reqVars, hVars, sVars>>)

\* the relay of stream s is blocked in SendRequest on its first request with
\* a later request queued
BlockedOn(s) ==
  /\ rpc[s] = "send" /\ Len(sendLog[s]) = 1 /\ Len(reqQ[s]) = 1

\* the request of stream s was forwarded and answered
Relayed(s) == Len(replyLog[s]) = 1 /\ rpc[s] = "range"

\* C33 witness: a relay is blocked in SendRequest with a later request of
\* its stream queued, either the origin's global relay or the relay of the
\* inbound channel's requests of pair 1, while the requests of the other
\* streams were forwarded and answered, both peers' channels were opened and
\* accepted and the target's byte was copied to the inbound channel of pair 1
C33_Witness ==
  /\ \/ /\ BlockedOn(<<0, "serverReqs">>)
        /\ Relayed(<<0, "destReqs">>) /\ Relayed(<<1, "originRequests">>)
     \/ /\ BlockedOn(<<1, "originRequests">>)
        /\ Relayed(<<1, "destReqs">>) /\ Relayed(<<2, "originRequests">>)
  /\ hpc[1] = "bicopy" /\ hpc[2] = "bicopy" /\ notif[1].from # notif[2].from
  /\ Len(written[1][<<"originCh", "primary">>]) = 1

\* C34: a relay loop has ended only with its stream closed and drained and
\* every request of the stream forwarded; while the stream is open or holds a
\* request the loop cannot end, and at its range statement it can take the
\* next request, whatever handleRequest returned before and whether or not
\* the context is cancelled; every request handled, also after a failure, was
\* replied to once if it wanted a reply and not at all otherwise.
C34_RelaySurvivesFailure ==
  \A s \in Streams :
    /\ rpc[s] = "done" =>
         /\ reqClosed[s] /\ reqQ[s] = <<>>
         /\ Len(sendLog[s]) = Len(reqSeen[s])
    /\ (rpc[s] = "range" /\ ~(reqClosed[s] /\ reqQ[s] = <<>>)) =>
         ~ENABLED (processRequests_exit(s) /\ UNCHANGED <<ctxDone, hVars, cVars, sVars>>)
    /\ (rpc[s] = "range" /\ reqQ[s] # <<>>) =>
         ENABLED (processRequests_next(s) /\ UNCHANGED <<ctxDone, hVars, cVars, sVars>>)
    /\ \A i \in 1..Len(reqSeen[s]) :
         Handled(s, reqSeen[s][i].id) =>
           Cardinality(RepliesTo(s, reqSeen[s][i].id)) = IF reqSeen[s][i].wantReply THEN 1 ELSE 0

\* C34 witness: the forward of the first request failed and so did its
\* reply, the context is cancelled, and the loop has forwarded the second
\* request, replied to it and is back at its range statement on a stream
\* that is still open
C34_Witness ==
  \E s \in Streams :
    /\ Len(retLog[s]) = 2 /\ retLog[s][1].err = errTransport
    /\ reqSeen[s][1].wantReply /\ reqSeen[s][2].wantReply
    /\ Len(replyLog[s]) = 2
    /\ rerr[s] = Nil
    /\ ctxDone
    /\ rpc[s] = "range" /\ ~reqClosed[s]

\* the values the watcher has sent on shutdownErr: those buffered and the
\* one Serve received
WatcherSent == Len(shutdownErr) + (IF sway = "wait" THEN 1 ELSE 0)

\* C35: the watcher sends the outcome of the origin's Wait on shutdownErr
\* once and only after the origin connection ended; the channel never holds
\* more than one value; once the origin connection has ended the watcher's
\* send is possible whatever Serve does, also after Serve has returned, and
\* the watcher eventually terminates.
C35_WatcherNeverBlocks ==
  /\ [](/\ Len(shutdownErr) <= 1
        /\ WatcherSent = (IF wpc = "sent" THEN 1 ELSE 0)
        /\ wpc = "sent" => conn["origin"] = "down"
        /\ \A i \in 1..Len(shutdownErr) : shutdownErr[i] = connErr["origin"]
        /\ (wpc = "wait" /\ conn["origin"] = "down") =>
             ENABLED (Serve_watcher /\ UNCHANGED <<hVars, cVars>>))
  /\ (wpc = "wait" /\ conn["origin"] = "down") ~> (wpc = "sent")

\* C35 witness: Serve returned through the cancellation with the origin
\* connected; the origin connection ended afterwards (closed by the loop
\* over the target's new channels) and the watcher terminated, leaving the
\* outcome of Wait in the channel nobody receives from
C35_Witness ==
  /\ spc = "returned" /\ sway = "ctx" /\ sret = context_Canceled
  /\ wpc = "sent"
  /\ shutdownErr = <<errClosed>>
  /\ LoopClosed("target")

\* C36 as stated: no goroutine of ServeProxy runs handle with the absent
\* connection of a failed Accept, and none has invoked Close on it (the
\* invocation on the nil connection is what ends the process).
C36_Original ==
  /\ \A i \in Tasks : tpc[i] # "handleNil"
  /\ ppc # "crashed"

\* the request stream of the inbound channel of pair n
Outbound(n) == <<n, "originRequests">>

C38_PairIsolation ==
  /\ \A n \in Chans, w \in ChNames, k \in Kinds :
       IsPrefix(written[n][<<w, k>>], readLog[n][<<Other(w), k>>])
  /\ \A s \in ChannelStreams :
       /\ Len(sendTo[s]) = Len(sendLog[s])
       /\ \A i \in 1..Len(sendTo[s]) : sendTo[s][i] = <<s[1], RelayDest(s)>>
  /\ \A n \in Chans :
       /\ hpc[n] # "returned" => closeLog[n] = <<>>
       /\ hpc[n] = "returned" => Len(closeLog[n]) <= Len(handleChannel_defers)
       /\ \A w \in ChNames :
            /\ cwpc[n][w] # "done" => ~InSeq(w, closeWriteLog[n])
            /\ Len(closeWriteLog[n]) <= Cardinality(ChNames)

\* C38 witness: the last pair has carried the target's byte and the target's
\* request to the origin, both its channels were half-closed and closed and
\* its handler has returned, while the first pair has carried the origin's
\* byte and the origin's request to the target and is still open: nothing of
\* it was closed or half-closed, and it holds no byte of the other pair
C38_Witness ==
  /\ MaxChans > 1
  /\ hpc[MaxChans] = "returned"
  /\ closeLog[MaxChans] = <<"originCh", "destCh">>
  /\ Len(closeWriteLog[MaxChans]) = 2
  /\ written[MaxChans][<<"originCh", "primary">>] = <<201>>
  /\ sendTo[<<MaxChans, "destReqs">>] = <<(<<MaxChans, "originCh">>)>>
  /\ hpc[1] = "bicopy"
  /\ written[1][<<"destCh", "primary">>] = <<101>>
  /\ written[1][<<"originCh", "primary">>] = <<>>
  /\ sendTo[<<1, "originRequests">>] = <<(<<1, "destCh">>)>>
  /\ closeLog[1] = <<>>
  /\ closeWriteLog[1] = <<>>

====
